---------------------------- MODULE Spec2Model ----------------------------
(***************************************************************************)
(* A model of the tlt-stops worker: the time-keyed caches (caches.rs),     *)
(* the streaming static-feed parsers (str_utils.rs), and the arrival       *)
(* resolution engine (lib.rs, models.rs, services.rs).                     *)
(*                                                                         *)
(* Bytes are one-character strings, byte strings are sequences of them.   *)
(* Option<T> is a sequence of length 0 (None) or 1 (Some).                 *)
(* HashMap<K, V> is a function whose domain is the set of keys present.    *)
(***************************************************************************)
EXTENDS Integers, Sequences, FiniteSets, TLC

VARIABLES
    now,          \* wall-clock seconds, what now_secs() returns
    single,       \* a CacheData<T> under test
    keyed,        \* a CacheDataWithKeys<K, T> under test
    ret,          \* what the last cache call returned, and the cell content it found
    hist,         \* history: the time and value of the last set per slot/key
    parser,       \* which static parser is being fed: "route", "type", "stop"
    content,      \* the bytes the upstream feed holds
    fold,         \* the accumulator of the parser's try_fold
    done,         \* the chunk stream has ended
    caches,       \* Caches: stop_arrival, stop_map, stops_raw
    pc,           \* where get_stop_arrivals stands: idle, an await, done
    req,          \* the locals of the request being served
    response,     \* what the last request answered
    served,       \* requests started so far
    pass1,        \* history: the clock, the arrival cache and the states at pass 1
    elapsed,      \* clock steps taken so far
    ref_date,     \* the local date in Tallinn when an arrival line is parsed
    feed_line,    \* an arrival line of the upstream body
    parsed,       \* what extract_arrival_data returned for it
    json,         \* the Arrival as serialized
    block,        \* a block of the body around that line, and its parse
    lookup,       \* the get_route_map / get_stop_map call under way or last made
    tasks         \* the arrivals requests in flight together, each with its locals

benchVars == <<single, keyed, ret, hist>>
cacheVars == <<now, single, keyed, ret, hist>>
parseVars == <<parser, content, fold, done>>
engineVars == <<caches, pc, req, response, served, pass1, elapsed>>
arrivalVars == <<ref_date, feed_line, parsed, json, block>>
indexVars == <<lookup>>
taskVars == <<tasks>>

vars == <<now, single, keyed, ret, hist, parser, content, fold, done,
          caches, pc, req, response, served, pass1, elapsed,
          ref_date, feed_line, parsed, json, block, lookup, tasks>>

----------------------------------------------------------------------------
(* Bounds of the model *)

MaxNow == 4
MaxTtl == 2
MaxLines == 3
MaxChunk == 3
MaxIds == 2
MaxBlocks == 2
MaxRequests == 2
MaxElapses == 2
MaxTasks == 2

----------------------------------------------------------------------------
(* Option and HashMap *)

None == <<>>
Some(x) == <<x>>
IsSome(o) == o # <<>>
Unwrap(o) == o[1]

EmptyMap == <<>>
MapGet(m, k) == IF k \in DOMAIN m THEN Some(m[k]) ELSE None
MapInsert(m, k, v) == [x \in DOMAIN m \cup {k} |-> IF x = k THEN v ELSE m[x]]
MapRemove(m, k) == [x \in DOMAIN m \ {k} |-> m[x]]

----------------------------------------------------------------------------
(* caches.rs: RefCell borrow flag, CacheRecord, CacheData, CacheDataWithKeys *)

\* RefCell::try_borrow: fails only while a mutable borrow is out (flag < 0).
TryBorrow(flag) == flag >= 0
\* A try_borrow_mut that never fails.
BorrowMutAnyway(flag) == TRUE
\* RefCell::try_borrow_mut: fails while any borrow is out.
TryBorrowMut(flag) == flag = 0

CacheRecord(data, expires_at) == [data |-> data, expires_at |-> expires_at]

\* now_secs().saturating_add(self.ttl_secs); the clock values of the model are
\* far below u32::MAX, where the saturation does not show.
ExpiresAt(t, ttl_secs) == t + ttl_secs

ExpiredLoose(t, expires_at) == t >= expires_at
\* `now_secs() > record.expires_at`
Expired(t, expires_at) == t > expires_at

\* CacheData::new / CacheDataWithKeys::new: the cell, its borrow flag, the TTL
CacheData_new(ttl_secs) == [record |-> None, borrow |-> 0, ttl_secs |-> ttl_secs]
CacheDataWithKeys_new(ttl_secs) ==
    [record |-> EmptyMap, borrow |-> 0, ttl_secs |-> ttl_secs]

\* A set that keeps the expiry of the record it finds.
CacheData_set_keeping_expiry(c, data, t) ==
    IF ~TryBorrowMut(c.borrow)
    THEN [cache |-> c, ok |-> FALSE]
    ELSE [cache |-> [c EXCEPT !.record =
                        Some(CacheRecord(data, IF IsSome(c.record)
                                               THEN Unwrap(c.record).expires_at
                                               ELSE ExpiresAt(t, c.ttl_secs)))],
          ok |-> TRUE]

\* CacheData::set. Returns the cell and Ok/Err.
CacheData_set(c, data, t) ==
    LET expires_at == ExpiresAt(t, c.ttl_secs) IN
    IF ~TryBorrowMut(c.borrow)
    THEN [cache |-> c, ok |-> FALSE]
    ELSE [cache |-> [c EXCEPT !.record = Some(CacheRecord(data, expires_at))],
          ok |-> TRUE]

\* The flag seen by the try_borrow_mut inside get: the Ref taken by
\* try_borrow at the top of get is a guard that lives to the end of the
\* function (the later `let record` only shadows it, and drop(record) drops
\* the plain reference), so one more shared borrow is out.
FlagInsideGet(flag) == flag + 1

\* CacheData::get. Returns the cell and the Option<Rc<T>>.
CacheData_get(c, t) ==
    IF ~TryBorrow(c.borrow) THEN [cache |-> c, out |-> None]
    ELSE IF c.record = None THEN [cache |-> c, out |-> None]
    ELSE IF Expired(t, Unwrap(c.record).expires_at)
         THEN [cache |-> IF TryBorrowMut(FlagInsideGet(c.borrow))
                         THEN [c EXCEPT !.record = None]    \* rec.take()
                         ELSE c,
               out |-> None]
         ELSE [cache |-> c, out |-> Some(Unwrap(c.record).data)]

\* CacheDataWithKeys::set
CacheDataWithKeys_set(c, key, data, t) ==
    LET expires_at == ExpiresAt(t, c.ttl_secs) IN
    IF ~TryBorrowMut(c.borrow)
    THEN [cache |-> c, ok |-> FALSE]
    ELSE [cache |-> [c EXCEPT !.record =
                        MapInsert(@, key, CacheRecord(data, expires_at))],
          ok |-> TRUE]

\* CacheDataWithKeys::get
CacheDataWithKeys_get(c, key, t) ==
    IF ~TryBorrow(c.borrow) THEN [cache |-> c, out |-> None]
    ELSE IF key \notin DOMAIN c.record THEN [cache |-> c, out |-> None]
    ELSE IF Expired(t, c.record[key].expires_at)
         THEN [cache |-> IF TryBorrowMut(FlagInsideGet(c.borrow))
                         THEN [c EXCEPT !.record = MapRemove(@, key)]
                         ELSE c,
               out |-> None]
         ELSE [cache |-> c, out |-> Some(c.record[key].data)]

----------------------------------------------------------------------------
(* str_utils.rs: bytes, the line scanner, the static-feed parsers *)

NL == "\n"
Semicolon == ";"
Comma == ","
\* One symbol for a byte that no UTF-8 text contains (0xFF).
InvalidByte == "0xFF"
\* What str::trim removes.
Whitespace == {" ", "\t", "\r", "\n"}

\* A decoding that accepts every byte sequence.
Utf8Any(bytes) == TRUE
\* str::from_utf8(bytes).is_ok()
Utf8Ok(bytes) == \A i \in 1..Len(bytes) : bytes[i] # InvalidByte

\* str::trim
RECURSIVE Trim(_)
Trim(s) ==
    IF s = <<>> THEN s
    ELSE IF s[1] \in Whitespace THEN Trim(Tail(s))
    ELSE IF s[Len(s)] \in Whitespace THEN Trim(SubSeq(s, 1, Len(s) - 1))
    ELSE s

\* Trimming without the filter: an empty column stays Some("").
TrimKeepEmpty(s) == Some(Trim(s))
\* .map(str::trim).map(str::to_string).filter(|s| !s.is_empty())
TrimNonEmpty(s) == IF Trim(s) = <<>> THEN None ELSE Some(Trim(s))

\* Option::or
OrElse(o, other) == IF IsSome(o) THEN o ELSE other

\* The 0-based offset of the first byte d of s at offset >= from, or -1:
\* the next item of memchr_iter(d, &s[from..]).map(|pos| pos + from).
FindFrom(s, d, from) ==
    LET hits == {i \in (from + 1)..Len(s) : s[i] = d} IN
    IF hits = {} THEN -1
    ELSE (CHOOSE i \in hits : \A j \in hits : i <= j) - 1

\* The pieces of s between the bytes d:
\* memchr_iter(d, s).chain(once(s.len())) with start = i + 1 after each.
RECURSIVE SplitOn(_, _)
SplitOn(s, d) ==
    LET i == FindFrom(s, d, 0) IN
    IF i = -1 THEN <<s>>
    ELSE <<SubSeq(s, 1, i)>> \o SplitOn(SubSeq(s, i + 2, Len(s)), d)

\* col_at_memchr_bytes(line, target): Option<&[u8]>
col_at_memchr_bytes(line, target) ==
    LET cols == SplitOn(line, Semicolon) IN
    IF target < Len(cols) THEN Some(cols[target + 1]) ELSE None

\* splits_commas(input): Err (None) on invalid UTF-8, else every piece.
splits_commas(input) ==
    LET parts == SplitOn(input, Comma) IN
    IF \A i \in 1..Len(parts) : Utf8Ok(parts[i]) THEN Some(parts) ELSE None

\* split_stops_field(stops_raw): every piece before a comma, and what follows
\* the last comma only when it is not empty. No trimming. Err is None.
split_stops_field(stops_raw) ==
    LET parts == SplitOn(stops_raw, Comma)
        stops == IF parts[Len(parts)] = <<>>
                 THEN SubSeq(parts, 1, Len(parts) - 1) ELSE parts
    IN IF \A i \in 1..Len(stops) : Utf8Ok(stops[i]) THEN Some(stops) ELSE None

\* LastRouteData::default()
LastRouteData_default == [last_type |-> None, last_number |-> None]

\* The fallback for an empty route-type / route-number column.
NoCarry(last) == None
CarryForward(last) == last

\* extract_route_data_from_line(line, &mut last_data): the Option<RouteData>
\* and last_data as the call leaves it.
extract_route_data_from_line(line, last_data) ==
    LET cols == SplitOn(line, Semicolon)
        has(c) == c < Len(cols)
        col(c) == cols[c + 1]
        none(ld) == [rec |-> None, last_data |-> ld]
    IN
    IF ~Utf8Ok(col(0)) THEN none(last_data)                  \* col 0: ok()?
    ELSE IF ~has(3) THEN none(last_data)                     \* route_num?
    ELSE IF ~Utf8Ok(col(3)) THEN none(last_data)             \* col 3: ok()?
    ELSE
    LET route_type == OrElse(TrimNonEmpty(col(3)), CarryForward(last_data.last_type)) IN
    IF route_type = None THEN none(last_data)
    ELSE
    LET ld1 == [last_data EXCEPT !.last_type = route_type]
        route_num == OrElse(TrimNonEmpty(col(0)), CarryForward(ld1.last_number))
    IN
    IF route_num = None THEN none(ld1)
    ELSE
    LET ld2 == [ld1 EXCEPT !.last_number = route_num] IN
    IF ~has(10) THEN none(ld2)                               \* direction?
    ELSE IF ~Utf8Ok(col(10)) THEN none(ld2)                  \* col 10: ok()?
    ELSE
    LET direction == TrimNonEmpty(col(10))
        stops == IF has(13) THEN split_stops_field(col(13)) ELSE Some(<<>>)
    IN
    IF stops = None THEN none(ld2)                           \* col 13: ok()?
    ELSE IF direction = None THEN none(ld2)                  \* direction?
    ELSE [rec |-> Some([number |-> Unwrap(route_num),
                        route_type |-> Unwrap(route_type),
                        directions |-> Unwrap(direction),
                        stops |-> Unwrap(stops)]),
          last_data |-> ld2]

\* An insert that appends the stops to the list the direction already has.
InsertRouteMerge(route_map, rd) ==
    LET type_entry == IF rd.route_type \in DOMAIN route_map
                      THEN route_map[rd.route_type] ELSE EmptyMap
        had == IF rd.number \in DOMAIN type_entry
                  /\ rd.directions \in DOMAIN type_entry[rd.number].directions
               THEN type_entry[rd.number].directions[rd.directions] ELSE <<>>
        dirs == IF rd.number \in DOMAIN type_entry
                THEN type_entry[rd.number].directions ELSE EmptyMap
    IN MapInsert(route_map, rd.route_type,
                 MapInsert(type_entry, rd.number,
                           [number |-> rd.number, type |-> rd.route_type,
                            directions |-> MapInsert(dirs, rd.directions,
                                                     had \o rd.stops)]))

\* The body of `if let Some(route_data)` in extract_route_data_from_buffer:
\* route_map.entry(type).or_default().entry(number).and_modify(..).or_insert(..)
InsertRoute(route_map, rd) ==
    LET type_entry == IF rd.route_type \in DOMAIN route_map
                      THEN route_map[rd.route_type] ELSE EmptyMap
        group == IF rd.number \in DOMAIN type_entry
                 THEN [type_entry[rd.number] EXCEPT
                          !.directions = MapInsert(@, rd.directions, rd.stops)]
                 ELSE [number |-> rd.number,
                       type |-> rd.route_type,
                       directions |-> MapInsert(EmptyMap, rd.directions, rd.stops)]
    IN MapInsert(route_map, rd.route_type,
                 MapInsert(type_entry, rd.number, group))

\* The loop of extract_route_data_from_buffer from the newline iterator's
\* offset `from` on.
RECURSIVE RouteLoop(_, _, _, _, _, _)
RouteLoop(buf, from, route_map, last_data, last_processed, first_line_skipped) ==
    LET newline_pos == FindFrom(buf, NL, from) IN
    IF newline_pos = -1
    THEN [route_map |-> route_map, last_data |-> last_data,
          last_processed |-> last_processed,
          first_line_skipped |-> first_line_skipped]
    ELSE IF ~first_line_skipped
    THEN RouteLoop(buf, newline_pos + 1, route_map, last_data,
                   newline_pos + 1, TRUE)
    ELSE
    LET line == SubSeq(buf, last_processed + 1, newline_pos)
        r == extract_route_data_from_line(line, last_data)
    IN RouteLoop(buf, newline_pos + 1,
                 IF IsSome(r.rec) THEN InsertRoute(route_map, Unwrap(r.rec))
                 ELSE route_map,
                 r.last_data, newline_pos + 1, first_line_skipped)

\* extract_route_data_from_buffer
extract_route_data_from_buffer(buf, route_map, last_data, last_processed, first_line_skipped) ==
    RouteLoop(buf, last_processed, route_map, last_data, last_processed,
              first_line_skipped)

\* An accumulator whose header flag is set from the start.
RouteFoldInitSkipped ==
    [buf |-> <<>>, route_map |-> EmptyMap, last_data |-> LastRouteData_default,
     last_processed |-> 0, first_line_skipped |-> TRUE]

\* The accumulator of the try_fold over the route stream, as get_route_map
\* starts it.
RouteFoldInit ==
    [buf |-> <<>>, route_map |-> EmptyMap, last_data |-> LastRouteData_default,
     last_processed |-> 0, first_line_skipped |-> FALSE]

\* A fold step that forgets the unterminated tail of the buffer.
extract_route_data_from_buffer_fold_drop_tail(acc, chunk) ==
    LET buf == acc.buf \o chunk
        r == extract_route_data_from_buffer(buf, acc.route_map, acc.last_data,
                 acc.last_processed, acc.first_line_skipped)
    IN [buf |-> buf, route_map |-> r.route_map, last_data |-> r.last_data,
        last_processed |-> Len(buf),
        first_line_skipped |-> r.first_line_skipped]

\* extract_route_data_from_buffer_fold
extract_route_data_from_buffer_fold(acc, chunk) ==
    LET buf == acc.buf \o chunk
        r == extract_route_data_from_buffer(buf, acc.route_map, acc.last_data,
                 acc.last_processed, acc.first_line_skipped)
    IN [buf |-> buf, route_map |-> r.route_map, last_data |-> r.last_data,
        last_processed |-> r.last_processed,
        first_line_skipped |-> r.first_line_skipped]

\* The loop of extract_type_from_buffer.
RECURSIVE TypeLoop(_, _, _, _, _)
TypeLoop(buf, from, type_set, last_processed, first_line_skipped) ==
    LET newline_pos == FindFrom(buf, NL, from) IN
    IF newline_pos = -1
    THEN [type_set |-> type_set, last_processed |-> last_processed,
          first_line_skipped |-> first_line_skipped]
    ELSE IF ~first_line_skipped
    THEN TypeLoop(buf, newline_pos + 1, type_set, newline_pos + 1, TRUE)
    ELSE
    LET line == SubSeq(buf, last_processed + 1, newline_pos)
        c == col_at_memchr_bytes(line, 3)
    IN TypeLoop(buf, newline_pos + 1,
                IF IsSome(c) /\ Unwrap(c) # <<>> /\ Utf8Ok(Unwrap(c))
                THEN type_set \cup {Unwrap(c)} ELSE type_set,
                newline_pos + 1, first_line_skipped)

\* extract_type_from_buffer
extract_type_from_buffer(buf, type_set, last_processed, first_line_skipped) ==
    TypeLoop(buf, last_processed, type_set, last_processed, first_line_skipped)

\* The accumulator of the try_fold in get_types.
TypeFoldInit ==
    [buf |-> <<>>, type_set |-> {}, last_processed |-> 0,
     first_line_skipped |-> FALSE]

\* extract_type_from_buffer_fold
extract_type_from_buffer_fold(acc, chunk) ==
    LET buf == acc.buf \o chunk
        r == extract_type_from_buffer(buf, acc.type_set, acc.last_processed,
                                      acc.first_line_skipped)
    IN [buf |-> buf, type_set |-> r.type_set,
        last_processed |-> r.last_processed,
        first_line_skipped |-> r.first_line_skipped]

\* extract_stop_data_from_line(line, &last_name): Option<Rc<StopData>>
extract_stop_data_from_line(line, last_name) ==
    LET cols == SplitOn(line, Semicolon)
        has(c) == c < Len(cols)
        col(c) == cols[c + 1]
    IN
    IF ~Utf8Ok(col(0)) THEN None
    ELSE IF has(1) /\ ~Utf8Ok(col(1)) THEN None
    ELSE IF has(5) /\ ~Utf8Ok(col(5)) THEN None
    ELSE
    LET name == OrElse(IF has(5) THEN TrimNonEmpty(col(5)) ELSE None, last_name)
        siri_id == IF has(1) THEN TrimNonEmpty(col(1)) ELSE None
        id == TrimNonEmpty(col(0))
    IN
    IF name = None \/ siri_id = None \/ id = None THEN None
    ELSE Some([id |-> Unwrap(id), siri_id |-> Unwrap(siri_id),
               name |-> Unwrap(name)])

\* The two inserts of extract_stop_data_from_buffer, in the code's order.
InsertStop(stop_map, stop_data) ==
    MapInsert(MapInsert(stop_map, stop_data.id, stop_data),
              stop_data.siri_id, stop_data)

\* The loop of extract_stop_data_from_buffer.
RECURSIVE StopLoop(_, _, _, _, _, _)
StopLoop(buf, from, stop_map, last_name, last_processed, first_line_skipped) ==
    LET newline_pos == FindFrom(buf, NL, from) IN
    IF newline_pos = -1
    THEN [stop_map |-> stop_map, last_name |-> last_name,
          last_processed |-> last_processed,
          first_line_skipped |-> first_line_skipped]
    ELSE IF ~first_line_skipped
    THEN StopLoop(buf, newline_pos + 1, stop_map, last_name,
                  newline_pos + 1, TRUE)
    ELSE
    LET line == SubSeq(buf, last_processed + 1, newline_pos)
        r == extract_stop_data_from_line(line, last_name)
    IN StopLoop(buf, newline_pos + 1,
                IF IsSome(r) THEN InsertStop(stop_map, Unwrap(r)) ELSE stop_map,
                IF IsSome(r) THEN Some(Unwrap(r).name) ELSE last_name,
                newline_pos + 1, first_line_skipped)

\* extract_stop_data_from_buffer
extract_stop_data_from_buffer(buf, stop_map, last_name, last_processed, first_line_skipped) ==
    StopLoop(buf, last_processed, stop_map, last_name, last_processed,
             first_line_skipped)

\* The accumulator of the try_fold over the stop stream, as get_stop_map
\* starts it.
StopFoldInit ==
    [buf |-> <<>>, stop_map |-> EmptyMap, last_name |-> None,
     last_processed |-> 0, first_line_skipped |-> FALSE]

\* A fold step that takes the end of the buffer for the end of a line.
extract_stop_data_from_buffer_fold_eager(acc, chunk) ==
    LET buf == acc.buf \o chunk
        r == extract_stop_data_from_buffer(buf \o <<NL>>, acc.stop_map, acc.last_name,
                 acc.last_processed, acc.first_line_skipped)
    IN [buf |-> buf, stop_map |-> r.stop_map, last_name |-> r.last_name,
        last_processed |-> Len(buf),
        first_line_skipped |-> r.first_line_skipped]

\* extract_stop_data_from_buffer_fold
extract_stop_data_from_buffer_fold(acc, chunk) ==
    LET buf == acc.buf \o chunk
        r == extract_stop_data_from_buffer(buf, acc.stop_map, acc.last_name,
                 acc.last_processed, acc.first_line_skipped)
    IN [buf |-> buf, stop_map |-> r.stop_map, last_name |-> r.last_name,
        last_processed |-> r.last_processed,
        first_line_skipped |-> r.first_line_skipped]

----------------------------------------------------------------------------
(* str_utils.rs: the arrival feed parser *)

Digits == <<"0", "1", "2", "3", "4", "5", "6", "7", "8", "9">>
DigitValue(d) == (CHOOSE i \in 1..10 : Digits[i] = d) - 1
IsDigit(d) == \E i \in 1..10 : Digits[i] = d

RECURSIVE DecimalValue(_)
DecimalValue(s) ==
    IF s = <<>> THEN 0
    ELSE 10 * DecimalValue(SubSeq(s, 1, Len(s) - 1)) + DigitValue(s[Len(s)])

\* current.parse::<u32>(): digits only; the values of the model are far below
\* u32::MAX.
ParseU32(s) ==
    IF s # <<>> /\ \A i \in 1..Len(s) : IsDigit(s[i])
    THEN Some(DecimalValue(s)) ELSE None

SecondsPerDay == 86400
SecondsPerHour == 3600

\* chrono_tz::Europe::Tallinn: UTC+2 (EET), UTC+3 while summer time (EEST)
\* lasts. Dates are day numbers of the year 2026: clocks go forward on day 88
\* (29 March) from 03:00 to 04:00 and back on day 298 (25 October) from 04:00
\* to 03:00.
SpringForwardDay == 88
FallBackDay == 298
EetOffset == 2 * SecondsPerHour
EestOffset == 3 * SecondsPerHour
\* The local hour that is skipped on SpringForwardDay and comes twice on
\* FallBackDay: 03:00:00 .. 03:59:59.
InChangedHour(secs) == 3 * SecondsPerHour <= secs /\ secs < 4 * SecondsPerHour

\* Summer time holds at a local date and time of day outside the changed hours.
SummerTime(date, secs) ==
    /\ date > SpringForwardDay
          \/ (date = SpringForwardDay /\ secs >= 4 * SecondsPerHour)
    /\ date < FallBackDay
          \/ (date = FallBackDay /\ secs < 3 * SecondsPerHour)

\* Tallinn.from_local_datetime(&naive_dt): the LocalResult, each candidate
\* given by its UTC offset.
from_local_datetime(date, secs) ==
    IF date = SpringForwardDay /\ InChangedHour(secs)
    THEN [kind |-> "None", earliest |-> 0, latest |-> 0]
    ELSE IF date = FallBackDay /\ InChangedHour(secs)
    THEN [kind |-> "Ambiguous", earliest |-> EestOffset, latest |-> EetOffset]
    ELSE IF SummerTime(date, secs)
    THEN [kind |-> "Single", earliest |-> EestOffset, latest |-> EestOffset]
    ELSE [kind |-> "Single", earliest |-> EetOffset, latest |-> EetOffset]

\* dt.with_timezone(&Utc).to_rfc3339() of the local date and time at the
\* given UTC offset: the UTC date and the UTC time of day the string spells.
to_rfc3339(date, secs, offset) ==
    LET instant == date * SecondsPerDay + secs - offset IN
    [date |-> instant \div SecondsPerDay, time |-> instant % SecondsPerDay]

\* Utc::now().with_timezone(&Tallinn).date_naive() at clock value t: the
\* worker's clock starts at 00:00 UTC of an ordinary winter day.
EngineStartDay == 10
TodayAt(t) == EngineStartDay + (t + EetOffset) \div SecondsPerDay

\* A reduction of the seconds modulo a day, whatever their size.
ReduceModulo(seconds_from_midnight) == seconds_from_midnight % SecondsPerDay
\* str_utils.rs 18-22: one day is taken off a value of a day or more.
ReduceOnce(seconds_from_midnight) ==
    IF seconds_from_midnight >= SecondsPerDay
    THEN seconds_from_midnight - SecondsPerDay
    ELSE seconds_from_midnight

\* The later candidate of an ambiguous local time.
PickLatest(local) == local.latest
\* LocalResult::Ambiguous(earliest, _latest) => earliest
PickEarliest(local) == local.earliest

\* seconds_from_midnight_to_utc_iso, `today` being the local date of
\* Utc::now() in Tallinn: Ok(string) is Some, Err is None.
seconds_from_midnight_to_utc_iso(seconds_from_midnight, today) ==
    LET is_next_day == seconds_from_midnight >= SecondsPerDay
        secs == ReduceOnce(seconds_from_midnight)
        date == IF is_next_day THEN today + 1 ELSE today
        local == from_local_datetime(date, secs)
    IN IF secs >= SecondsPerDay THEN None      \* from_num_seconds_from_midnight_opt
       ELSE IF local.kind = "Single" THEN Some(to_rfc3339(date, secs, local.earliest))
       ELSE IF local.kind = "Ambiguous"
       THEN Some(to_rfc3339(date, secs, PickEarliest(local)))
       ELSE None

LowEntryMarker == <<"Z">>

\* extract_arrival_data(arrival_line): Err is None. `today` is the date
\* seconds_from_midnight_to_utc_iso reads from the clock.
extract_arrival_data(arrival_line, today) ==
    LET cols == SplitOn(arrival_line, Comma)
        has(c) == c < Len(cols)
        col(c) == cols[c + 1]
        secs == IF has(2) THEN ParseU32(col(2)) ELSE None
        expected_time == IF IsSome(secs)
                         THEN seconds_from_midnight_to_utc_iso(Unwrap(secs), today)
                         ELSE None
    IN
    IF has(2) /\ expected_time = None THEN None              \* col 2: map_err(..)?
    ELSE IF ~has(1) THEN None                                \* invalid arrival data1
    ELSE IF ~has(6) THEN None                                \* invalid arrival data3
    ELSE Some([number |-> col(1), type |-> col(0),
               arrivals |-> [time |-> Unwrap(expected_time),
                             low_entry |-> col(6) = LowEntryMarker]])

\* impl Serialize for Arrival: the entries of the map written.
Arrival_serialize(arrival) ==
    IF arrival.low_entry
    THEN [k \in {"time", "isLowEntry"} |->
             IF k = "time" THEN arrival.time ELSE TRUE]
    ELSE [k \in {"time"} |-> arrival.time]

\* The arrivals map after .entry(type).or_insert_with(..).entry(number)
\* .or_insert_with(..).push(arrival).
PushArrival(arrivals, a) ==
    LET by_type == IF a.type \in DOMAIN arrivals THEN arrivals[a.type] ELSE EmptyMap
        list == IF a.number \in DOMAIN by_type THEN by_type[a.number] ELSE <<>>
    IN MapInsert(arrivals, a.type,
                 MapInsert(by_type, a.number, Append(list, a.arrivals)))

\* A loop that leaves a failing line out and goes on with the next.
RECURSIVE CollectArrivalsSkipping(_, _, _)
CollectArrivalsSkipping(lines, arrivals, today) ==
    IF lines = <<>> THEN Some(arrivals)
    ELSE LET a == IF lines[1] = <<>> THEN None
                  ELSE extract_arrival_data(lines[1], today) IN
         CollectArrivalsSkipping(Tail(lines),
             IF a = None THEN arrivals ELSE PushArrival(arrivals, Unwrap(a)),
             today)

\* The for loop of extract_stop_arrival_list_data over the non-empty lines:
\* the arrivals map, or Err (None) at the first line that fails.
RECURSIVE CollectArrivals(_, _, _)
CollectArrivals(lines, arrivals, today) ==
    IF lines = <<>> THEN Some(arrivals)
    ELSE IF lines[1] = <<>> THEN CollectArrivals(Tail(lines), arrivals, today)
    ELSE LET a == extract_arrival_data(lines[1], today) IN
         IF a = None THEN None
         ELSE CollectArrivals(Tail(lines), PushArrival(arrivals, Unwrap(a)), today)

\* TransportService::get_stop_name_by_id
get_stop_name_by_id(stop_id, stop_map) ==
    IF stop_id \in DOMAIN stop_map THEN Some(stop_map[stop_id].name) ELSE None

\* extract_stop_arrival_list_data(stop_lines, stop_map): Err is None. The
\* caller passes only blocks that hold a line break.
extract_stop_arrival_list_data(stop_lines, stop_map, today) ==
    LET first_new_line_pos == FindFrom(stop_lines, NL, 0)
        first_line == SubSeq(stop_lines, 1, first_new_line_pos)
        stop_id_comma_pos == FindFrom(first_line, Comma, 0)
        stop_id == SubSeq(first_line, stop_id_comma_pos + 2, Len(first_line))
        arrival_lines == SubSeq(stop_lines, first_new_line_pos + 2, Len(stop_lines))
        arrivals == CollectArrivals(SplitOn(arrival_lines, NL), EmptyMap, today)
        name == get_stop_name_by_id(stop_id, stop_map)
    IN
    IF first_new_line_pos = -1 THEN None                     \* invalid arrival data4
    ELSE IF stop_id_comma_pos = -1 THEN None                 \* invalid arrival data5
    ELSE IF arrivals = None THEN None                        \* arrival?
    ELSE IF name = None THEN None                            \* invalid arrival data6
    ELSE Some([id |-> stop_id, name |-> Unwrap(name),
               arrivals |-> Unwrap(arrivals)])

BlockBoundary == <<NL, "s", "t", "o", "p", Comma>>

\* The 0-based offset of the first BlockBoundary of s at offset >= from, or -1.
FindBoundary(s, from) ==
    LET n == Len(BlockBoundary)
        hits == {i \in (from + 1)..(Len(s) - n + 1) :
                    SubSeq(s, i, i + n - 1) = BlockBoundary}
    IN IF hits = {} THEN -1
       ELSE (CHOOSE i \in hits : \A j \in hits : i <= j) - 1

\* The parts memmem::find_iter(s, "\nstop,").chain(once(s.len())) cuts, the
\* first at offset `start`, the search going on from offset `from`.
RECURSIVE BoundaryParts(_, _, _)
BoundaryParts(s, start, from) ==
    LET i == FindBoundary(s, from) IN
    IF i = -1 THEN <<SubSeq(s, start + 1, Len(s))>>
    ELSE <<SubSeq(s, start + 1, i)>>
         \o BoundaryParts(s, i + 1, i + Len(BlockBoundary))

\* split_arrival_by_stops: every part but the first (.skip(1)).
split_arrival_by_stops(arrival) == Tail(BoundaryParts(arrival, 0, 0))

\* Every part kept, with or without a line break.
KeepEveryPart(parts) == parts

\* The parts that hold a line break: .filter(|s| memchr(b'\n', s).is_some())
RECURSIVE WithLineBreak(_)
WithLineBreak(parts) ==
    IF parts = <<>> THEN <<>>
    ELSE (IF FindFrom(parts[1], NL, 0) # -1 THEN <<parts[1]>> ELSE <<>>)
         \o WithLineBreak(Tail(parts))

\* extract_arrival_stop_data_from_line(line, stop_map): the results, in order.
extract_arrival_stop_data_from_line(line, stop_map, today) ==
    LET parts == WithLineBreak(BoundaryParts(line, 0, 0)) IN
    [i \in 1..Len(parts) |-> extract_stop_arrival_list_data(parts[i], stop_map, today)]

\* split_arrival_by_stops(..).flat_map(extract_arrival_stop_data_from_line):
\* the Result of every block of the response, in order.
RECURSIVE FlatMapBlocks(_, _, _)
FlatMapBlocks(parts, stop_map, today) ==
    IF parts = <<>> THEN <<>>
    ELSE extract_arrival_stop_data_from_line(parts[1], stop_map, today)
         \o FlatMapBlocks(Tail(parts), stop_map, today)

----------------------------------------------------------------------------
(* models.rs, services.rs, lib.rs: the arrival resolution engine *)

\* caches.rs Caches::new: the TTLs of the caches get_stop_arrivals uses
StopArrivalTtl == 10
StopMapTtl == 10800
RoutesRawTtl == 10800
StopsRawTtl == 10800
TypesTtl == 86400

Caches_new ==
    [routes_raw |-> CacheData_new(RoutesRawTtl),
     stop_arrival |-> CacheDataWithKeys_new(StopArrivalTtl),
     stop_map |-> CacheData_new(StopMapTtl),
     stops_raw |-> CacheData_new(StopsRawTtl),
     types |-> CacheData_new(TypesTtl)]

\* StopArrivalState, once past StopArrivalState::StopId
Invalid == [tag |-> "Invalid", data |-> None, arrivals |-> None]
Valid(data) == [tag |-> "Valid", data |-> Some(data), arrivals |-> None]
Ready(arrivals) == [tag |-> "Ready", data |-> None, arrivals |-> Some(arrivals)]

\* StopId::validate
validate(stop_id, stop_map) ==
    IF stop_id \in DOMAIN stop_map THEN Valid(stop_map[stop_id]) ELSE Invalid

\* The key ValidStop::fetch_arrivals_from_cache reads: &self.data.siri_id
ArrivalCacheKey(data) == data.siri_id

\* ValidStop::fetch_arrivals_from_cache: the cache cell and the next state.
fetch_arrivals_from_cache(data, arrivals_cache, t) ==
    LET from_cache == CacheDataWithKeys_get(arrivals_cache, ArrivalCacheKey(data), t) IN
    [cache |-> from_cache.cache,
     state |-> IF IsSome(from_cache.out) THEN Ready(Unwrap(from_cache.out))
               ELSE Valid(data)]

\* A cache pass that reads the cache again for the Ready states too.
RECURSIVE CachePassAll(_, _, _)
CachePassAll(states, arrivals_cache, t) ==
    IF states = <<>> THEN [cache |-> arrivals_cache, states |-> <<>>]
    ELSE LET again == IF states[1].tag = "Ready"
                      THEN CacheDataWithKeys_get(arrivals_cache,
                                                 Unwrap(states[1].arrivals).id, t)
                      ELSE [cache |-> arrivals_cache, out |-> None]
             head == IF states[1].tag = "Valid"
                     THEN fetch_arrivals_from_cache(Unwrap(states[1].data),
                                                    arrivals_cache, t)
                     ELSE IF IsSome(again.out)
                     THEN [cache |-> again.cache, state |-> Ready(Unwrap(again.out))]
                     ELSE [cache |-> arrivals_cache, state |-> states[1]]
             rest == CachePassAll(Tail(states), head.cache, t)
         IN [cache |-> rest.cache, states |-> <<head.state>> \o rest.states]

\* .map(|state| match state { Valid(v) => v.fetch_arrivals_from_cache(..),
\* other => other }) over the states, in order.
RECURSIVE CachePass(_, _, _)
CachePass(states, arrivals_cache, t) ==
    IF states = <<>> THEN [cache |-> arrivals_cache, states |-> <<>>]
    ELSE LET head == IF states[1].tag = "Valid"
                     THEN fetch_arrivals_from_cache(Unwrap(states[1].data),
                                                    arrivals_cache, t)
                     ELSE [cache |-> arrivals_cache, state |-> states[1]]
             rest == CachePass(Tail(states), head.cache, t)
         IN [cache |-> rest.cache, states |-> <<head.state>> \o rest.states]

\* lib.rs 350-364: validate every identifier, then the first cache pass.
RECURSIVE ValidateAll(_, _)
ValidateAll(stops_request, stop_map) ==
    IF stops_request = <<>> THEN <<>>
    ELSE <<validate(stops_request[1], stop_map)>>
         \o ValidateAll(Tail(stops_request), stop_map)

\* The pieces joined with commas: the fold of lib.rs 373-379.
RECURSIVE JoinCommas(_)
JoinCommas(ids) ==
    IF ids = <<>> THEN <<>>
    ELSE IF Len(ids) = 1 THEN ids[1]
    ELSE ids[1] \o <<Comma>> \o JoinCommas(Tail(ids))

\* Every order in which a HashSet may yield its elements.
Orders(set) ==
    {o \in [1..Cardinality(set) -> set] : \A i, j \in 1..Cardinality(set) :
        o[i] = o[j] => i = j}

\* The siriId of every state still Valid, in request order (filter_map).
RECURSIVE ValidSiriIds(_)
ValidSiriIds(states) ==
    IF states = <<>> THEN <<>>
    ELSE (IF states[1].tag = "Valid"
          THEN <<Unwrap(states[1].data).siri_id>> ELSE <<>>)
         \o ValidSiriIds(Tail(states))

\* The siriId of every state that is Valid or Ready.
RECURSIVE KnownSiriIds(_)
KnownSiriIds(states) ==
    IF states = <<>> THEN <<>>
    ELSE (IF states[1].tag = "Valid" THEN <<Unwrap(states[1].data).siri_id>>
          ELSE IF states[1].tag = "Ready" THEN <<Unwrap(states[1].arrivals).id>>
          ELSE <<>>)
         \o KnownSiriIds(Tail(states))

Range(seq) == {seq[i] : i \in 1..Len(seq)}

\* Batch keys that ask for the stops already Ready too.
MissingCachesWithReady(states) ==
    {JoinCommas(o) : o \in Orders(Range(KnownSiriIds(states)))}
\* Batch keys collected into a Vec: no deduplication.
MissingCachesNoDedup(states) == {JoinCommas(ValidSiriIds(states))}

\* lib.rs 365-379: the values missing_caches may take: the distinct siriIds
\* of the Valid states (a HashSet), joined with commas in the set's order.
MissingCaches(states) ==
    {JoinCommas(o) : o \in Orders(Range(ValidSiriIds(states)))}

SilentNull(state) == IF state.tag = "Ready" THEN Some(state.arrivals) ELSE Some(None)
\* lib.rs 394-400: Ok(Some(arrivals)), Ok(None), or Err (None here).
FinalizeState(state) ==
    IF state.tag = "Ready" THEN Some(state.arrivals)
    ELSE IF state.tag = "Invalid" THEN Some(None)
    ELSE None

\* A response that leaves the Invalid identifiers out.
FinalizeSkipsInvalid(states) ==
    LET each == [i \in 1..Len(states) |-> FinalizeState(states[i])]
        kept == SelectSeq(each, LAMBDA e : e # Some(None))
    IN
    IF \E i \in 1..Len(each) : each[i] = None
    THEN [kind |-> "error", stops |-> <<>>]
    ELSE [kind |-> "ok", stops |-> [i \in 1..Len(kept) |-> Unwrap(kept[i])]]
\* lib.rs 392-403: the response: PostArrivalsResponse { stops } or an error.
Finalize(states) ==
    LET each == [i \in 1..Len(states) |-> FinalizeState(states[i])] IN
    IF \E i \in 1..Len(each) : each[i] = None
    THEN [kind |-> "error", stops |-> <<>>]
    ELSE [kind |-> "ok", stops |-> [i \in 1..Len(each) |-> Unwrap(each[i])]]

\* A refresh that stores the blocks only if every block parsed.
StoreAllOrNothing(results, arrivals_cache, t) ==
    IF \E i \in 1..Len(results) : results[i] = None
    THEN [cache |-> arrivals_cache, ok |-> FALSE]
    ELSE [cache |-> [arrivals_cache EXCEPT !.record =
                        [key \in DOMAIN @ \cup {Unwrap(results[i]).id : i \in 1..Len(results)} |->
                            IF \E i \in 1..Len(results) : Unwrap(results[i]).id = key
                            THEN CacheRecord(
                                     Unwrap(results[CHOOSE i \in 1..Len(results) :
                                         /\ Unwrap(results[i]).id = key
                                         /\ \A j \in (i + 1)..Len(results) :
                                               Unwrap(results[j]).id # key]),
                                     ExpiresAt(t, arrivals_cache.ttl_secs))
                            ELSE @[key]]],
          ok |-> TRUE]

\* services.rs 382-386: the for loop over the block results: every Ok block
\* is stored under its id; the first Err ends the loop.
RECURSIVE StoreBlocks(_, _, _)
StoreBlocks(results, arrivals_cache, t) ==
    IF results = <<>> THEN [cache |-> arrivals_cache, ok |-> TRUE]
    ELSE IF results[1] = None THEN [cache |-> arrivals_cache, ok |-> FALSE]
    ELSE LET stop_arrival == Unwrap(results[1]) IN
         StoreBlocks(Tail(results),
                     CacheDataWithKeys_set(arrivals_cache, stop_arrival.id,
                                           stop_arrival, t).cache,
                     t)

\* A get_stop_map that has no derived index to look at: the cached raw
\* bytes are parsed again at every call.
get_stop_map_reparsed(c, t) ==
    LET raw == CacheData_get(c.stops_raw, t)
        c2 == [c EXCEPT !.stops_raw = raw.cache]
    IN
    IF IsSome(raw.out)
    THEN LET stop_map == extract_stop_data_from_buffer(Unwrap(raw.out), EmptyMap,
                                                       None, 0, FALSE).stop_map
         IN [caches |-> [c2 EXCEPT !.stop_map = CacheData_set(@, stop_map, t).cache],
             out |-> Some(stop_map), raw_read |-> TRUE, parsed |-> TRUE]
    ELSE [caches |-> c2, out |-> None, raw_read |-> TRUE, parsed |-> FALSE]

\* get_stop_map up to its first suspension: the derived index if cached, else
\* the index rebuilt from the cached raw bytes (and stored), else the stream
\* is needed.
get_stop_map_cached(c, t) ==
    LET derived == CacheData_get(c.stop_map, t)
        c1 == [c EXCEPT !.stop_map = derived.cache]
        raw == CacheData_get(c1.stops_raw, t)
        c2 == [c1 EXCEPT !.stops_raw = raw.cache]
    IN
    IF IsSome(derived.out)
    THEN [caches |-> c1, out |-> derived.out, raw_read |-> FALSE, parsed |-> FALSE]
    ELSE IF IsSome(raw.out)
    THEN LET stop_map == extract_stop_data_from_buffer(Unwrap(raw.out), EmptyMap,
                                                       None, 0, FALSE).stop_map
         IN [caches |-> [c2 EXCEPT !.stop_map = CacheData_set(@, stop_map, t).cache],
             out |-> Some(stop_map), raw_read |-> TRUE, parsed |-> TRUE]
    ELSE [caches |-> c2, out |-> None, raw_read |-> TRUE, parsed |-> FALSE]

\* A get_stop_map that stores the streamed bytes and not the index.
get_stop_map_streamed_bytes_only(c, t, feed) ==
    LET folded == extract_stop_data_from_buffer_fold(StopFoldInit, feed)
    IN [caches |-> [c EXCEPT !.stops_raw = CacheData_set(@, folded.buf, t).cache],
        out |-> Some(folded.stop_map)]

\* get_stop_map after the stop stream has been folded: both caches are set.
get_stop_map_streamed(c, t, feed) ==
    LET folded == extract_stop_data_from_buffer_fold(StopFoldInit, feed)
        c1 == [c EXCEPT !.stops_raw = CacheData_set(@, folded.buf, t).cache]
    IN [caches |-> [c1 EXCEPT !.stop_map = CacheData_set(@, folded.stop_map, t).cache],
        out |-> Some(folded.stop_map)]

\* get_route_map up to its first await (services.rs 162-177): the route
\* index parsed from the cached raw bytes, or None when the route stream has
\* to be read. raw_read and parsed tell whether the raw-bytes cache was read
\* and whether bytes were parsed.
get_route_map_cached(c, t) ==
    LET raw == CacheData_get(c.routes_raw, t)
        c1 == [c EXCEPT !.routes_raw = raw.cache]
    IN
    IF IsSome(raw.out)
    THEN [caches |-> c1,
          out |-> Some(extract_route_data_from_buffer(Unwrap(raw.out), EmptyMap,
                           LastRouteData_default, 0, FALSE).route_map),
          raw_read |-> TRUE, parsed |-> TRUE]
    ELSE [caches |-> c1, out |-> None, raw_read |-> TRUE, parsed |-> FALSE]

\* get_route_map from the stream on (services.rs 178-200): fold, then set
\* routes_raw.
get_route_map_streamed(c, t, feed) ==
    LET folded == extract_route_data_from_buffer_fold(RouteFoldInit, feed)
    IN [caches |-> [c EXCEPT !.routes_raw = CacheData_set(@, folded.buf, t).cache],
        out |-> Some(folded.route_map)]

\* The bytes of the feeds in the order of their values.
ByteOrder ==
    <<NL, " ", Comma, "0", "1", "2", "3", "4", "5", "6", "7", "8", "9",
      Semicolon, "K", "L", "a", "b", "h", "i", "l", "n", "o", "p", "s", "t", "u">>
ByteRank(byte) == CHOOSE i \in 1..Len(ByteOrder) : ByteOrder[i] = byte

\* Ord for String: byte by byte, a prefix before what it is a prefix of.
RECURSIVE StringLess(_, _)
StringLess(a, b) ==
    IF b = <<>> THEN FALSE
    ELSE IF a = <<>> THEN TRUE
    ELSE IF a[1] # b[1] THEN ByteRank(a[1]) < ByteRank(b[1])
    ELSE StringLess(Tail(a), Tail(b))

\* lib.rs 160-164: .into_iter().collect::<Vec<String>>() and sort_unstable()
RECURSIVE SortedTypes(_)
SortedTypes(type_set) ==
    IF type_set = {} THEN <<>>
    ELSE LET least == CHOOSE x \in type_set :
                          \A y \in type_set \ {x} : StringLess(x, y)
         IN <<least>> \o SortedTypes(type_set \ {least})

\* A get_types that reads the route stream although the route bytes are
\* cached.
get_types_refetched(c, t) ==
    LET derived == CacheData_get(c.types, t)
        c1 == [c EXCEPT !.types = derived.cache]
    IN
    IF IsSome(derived.out)
    THEN [caches |-> c1, out |-> derived.out, raw_read |-> FALSE, parsed |-> FALSE]
    ELSE [caches |-> c1, out |-> None, raw_read |-> FALSE, parsed |-> FALSE]

\* The get_types handler (lib.rs 152-170) with TransportService::get_types
\* (services.rs 123-132) up to the first await: the cached list, else the
\* list derived from the cached route bytes (sorted and stored), else the
\* route stream is needed.
get_types_cached(c, t) ==
    LET derived == CacheData_get(c.types, t)
        c1 == [c EXCEPT !.types = derived.cache]
        raw == CacheData_get(c1.routes_raw, t)
        c2 == [c1 EXCEPT !.routes_raw = raw.cache]
    IN
    IF IsSome(derived.out)
    THEN [caches |-> c1, out |-> derived.out, raw_read |-> FALSE, parsed |-> FALSE]
    ELSE IF IsSome(raw.out)
    THEN LET types == SortedTypes(extract_type_from_buffer(Unwrap(raw.out), {},
                                                           0, FALSE).type_set)
         IN [caches |-> [c2 EXCEPT !.types = CacheData_set(@, types, t).cache],
             out |-> Some(types), raw_read |-> TRUE, parsed |-> TRUE]
    ELSE [caches |-> c2, out |-> None, raw_read |-> TRUE, parsed |-> FALSE]

\* The handler after the route stream has been folded (services.rs 133-156,
\* lib.rs 160-166): routes_raw and the sorted list are set.
get_types_streamed(c, t, feed) ==
    LET folded == extract_type_from_buffer_fold(TypeFoldInit, feed)
        types == SortedTypes(folded.type_set)
        c1 == [c EXCEPT !.routes_raw = CacheData_set(@, folded.buf, t).cache]
    IN [caches |-> [c1 EXCEPT !.types = CacheData_set(@, types, t).cache],
        out |-> Some(types)]

\* The locals of get_stop_arrivals before a request.
ReqIdle ==
    [stops_request |-> <<>>, stop_map |-> EmptyMap, stop_states |-> <<>>,
     missing_caches |-> <<>>, fetches |-> 0, passes |-> 0,
     arrivals_raw |-> <<>>]

NoResponse == [kind |-> "none", stops |-> <<>>]
NoPass1 == [taken |-> FALSE, t |-> 0, record |-> EmptyMap, states |-> <<>>]

\* The worker as started: Caches::new, no request yet.
EngineIdle ==
    /\ caches = Caches_new
    /\ pc = "idle"
    /\ req = ReqIdle
    /\ response = NoResponse
    /\ served = 0
    /\ pass1 = NoPass1
    /\ elapsed = 0

NotParsed == [stage |-> "none", out |-> None]

\* No block parsed yet. `at` is the place of the line under test among the
\* arrival lines of the block; `evaluated` counts the lines the loop parsed.
NoBlock ==
    [stage |-> "none", stop_lines |-> <<>>, at |-> 0, out |-> None,
     evaluated |-> 0]

\* No index call made yet. `built` is history: when each index was last
\* derived.
NoLookup ==
    [feed |-> "none", stage |-> "idle", warm |-> FALSE, raw_read |-> FALSE,
     parsed |-> FALSE, fetched |-> FALSE, out |-> None, held |-> None,
     built |-> [route |-> None, stop |-> None, types |-> None]]
IndexIdle == lookup = NoLookup

\* The requests that may be in flight together.
TaskIds == 1..MaxTasks

\* The locals of an arrivals request that has not arrived. fetches counts
\* its batched fetches, passes its cache passes; `stored` is history: the
\* siriIds its own refresh wrote to the arrival cache.
NoTask ==
    [pc |-> "idle", stops_request |-> <<>>, stop_states |-> <<>>,
     missing_caches |-> <<>>, arrivals_raw |-> <<>>, fetches |-> 0,
     passes |-> 0, stored |-> {}, response |-> [kind |-> "none", stops |-> <<>>]]
TasksIdle == tasks = [i \in TaskIds |-> NoTask]

\* No arrival line under test.
ArrivalIdle ==
    /\ ref_date = EngineStartDay
    /\ feed_line = <<>>
    /\ parsed = NotParsed
    /\ json = None
    /\ block = NoBlock

----------------------------------------------------------------------------
(* The caches on their own: any interleaving of set, get and clock ticks.  *)

CacheValues == {"v1", "v2"}
CacheKeys == {<<"k", "1">>, <<"k", "2">>}

\* The caches as constructed and never used.
CacheIdle ==
    /\ now = 0
    /\ single = CacheData_new(0)
    /\ keyed = CacheDataWithKeys_new(0)
    /\ ret = [op |-> "new", key |-> None, out |-> None, ok |-> TRUE, before |-> None]
    /\ hist = [single |-> None, keyed |-> EmptyMap]

\* No parser running.
ParseIdle ==
    /\ parser = "none"
    /\ content = <<>>
    /\ fold = <<>>
    /\ done = FALSE

CacheInit ==
    /\ now = 0
    /\ \E ttl \in 0..MaxTtl :
          /\ single = CacheData_new(ttl)
          /\ keyed = CacheDataWithKeys_new(ttl)
    /\ ret = [op |-> "new", key |-> None, out |-> None, ok |-> TRUE, before |-> None]
    /\ hist = [single |-> None, keyed |-> EmptyMap]

\* The wall clock advances by a second.
Tick ==
    /\ now < MaxNow
    /\ now' = now + 1

CacheTick ==
    /\ Tick
    /\ ret' = [op |-> "tick", key |-> None, out |-> None, ok |-> TRUE, before |-> None]
    /\ UNCHANGED <<single, keyed, hist>>
    /\ UNCHANGED <<parseVars, engineVars, arrivalVars, indexVars, taskVars>>

SingleSet(v) ==
    LET r == CacheData_set(single, v, now) IN
    /\ single' = r.cache
    /\ ret' = [op |-> "set", key |-> None, out |-> None, ok |-> r.ok,
               before |-> single.record]
    /\ hist' = IF r.ok THEN [hist EXCEPT !.single = Some([t |-> now, v |-> v])]
               ELSE hist
    /\ UNCHANGED <<now, keyed>>
    /\ UNCHANGED <<parseVars, engineVars, arrivalVars, indexVars, taskVars>>

SingleGet ==
    LET r == CacheData_get(single, now) IN
    /\ single' = r.cache
    /\ ret' = [op |-> "get", key |-> None, out |-> r.out, ok |-> TRUE,
               before |-> single.record]
    /\ UNCHANGED <<now, keyed, hist>>
    /\ UNCHANGED <<parseVars, engineVars, arrivalVars, indexVars, taskVars>>

KeyedSet(k, v) ==
    LET r == CacheDataWithKeys_set(keyed, k, v, now) IN
    /\ keyed' = r.cache
    /\ ret' = [op |-> "set", key |-> Some(k), out |-> None, ok |-> r.ok,
               before |-> keyed.record]
    /\ hist' = IF r.ok
               THEN [hist EXCEPT !.keyed = MapInsert(@, k, [t |-> now, v |-> v])]
               ELSE hist
    /\ UNCHANGED <<now, single>>
    /\ UNCHANGED <<parseVars, engineVars, arrivalVars, indexVars, taskVars>>

KeyedGet(k) ==
    LET r == CacheDataWithKeys_get(keyed, k, now) IN
    /\ keyed' = r.cache
    /\ ret' = [op |-> "get", key |-> Some(k), out |-> r.out, ok |-> TRUE,
               before |-> keyed.record]
    /\ UNCHANGED <<now, single, hist>>
    /\ UNCHANGED <<parseVars, engineVars, arrivalVars, indexVars, taskVars>>

CacheNext ==
    \/ CacheTick
    \/ \E v \in CacheValues : SingleSet(v)
    \/ SingleGet
    \/ \E k \in CacheKeys, v \in CacheValues : KeyedSet(k, v)
    \/ \E k \in CacheKeys : KeyedGet(k)

InitCache == CacheInit /\ ParseIdle /\ EngineIdle /\ ArrivalIdle /\ IndexIdle /\ TasksIdle

SpecCache == InitCache /\ [][CacheNext]_vars

\* The borrow flag a cell may show when set or get is entered: written to
\* (-1), free (0), read by one or two holders. The cache's own calls leave
\* it at 0, where CacheInit starts; here set and get are taken as functions
\* of a cell in any borrow state.
BorrowFlags == -1..2

BorrowInit ==
    /\ now = 0
    /\ \E ttl \in 0..MaxTtl, v \in CacheValues \cup {"none"}, flag \in BorrowFlags :
          /\ single = [record |-> IF v = "none" THEN None
                                  ELSE Some(CacheRecord(v, ExpiresAt(0, ttl))),
                       borrow |-> flag, ttl_secs |-> ttl]
          /\ keyed = [record |-> IF v = "none" THEN EmptyMap
                                 ELSE MapInsert(EmptyMap, <<"k", "1">>,
                                                CacheRecord(v, ExpiresAt(0, ttl))),
                      borrow |-> flag, ttl_secs |-> ttl]
    /\ ret = [op |-> "new", key |-> None, out |-> None, ok |-> TRUE, before |-> None]
    /\ hist = [single |-> None, keyed |-> EmptyMap]

InitBorrow == BorrowInit /\ ParseIdle /\ EngineIdle /\ ArrivalIdle /\ IndexIdle /\ TasksIdle

SpecBorrow == InitBorrow /\ [][CacheNext]_vars

----------------------------------------------------------------------------
(* The static parsers fed by a chunk stream *)

\* Lines of a route feed: full, carried-forward, blank type, short, invalid
\* UTF-8, and a direction given again with other stops.
RouteLines ==
    {<<"1", ";", ";", ";", "b", ";", ";", ";", ";", ";", ";", ";", "K", ";", ";", ";", "s", ",", "t">>,  \* 1;;;b;;;;;;;K;;;s,t
     <<";", ";", ";", ";", ";", ";", ";", ";", ";", ";", "L", ";", ";", ";", "u">>,  \* ;;;;;;;;;;L;;;u
     <<"2", ";", ";", ";", " ", ";", ";", ";", ";", ";", ";", ";", "K", ";", ";", ";", "v", ",">>,  \* 2;;; ;;;;;;;K;;;v,
     <<";", ";", ";", "t", ";", ";", ";", ";", ";", ";", ";", " ", "K">>,  \* ;;;t;;;;;;; K
     <<"1", ";", ";", ";", "b">>,  \* 1;;;b
     <<InvalidByte, ";", ";", ";", "b", ";", ";", ";", ";", ";", ";", ";", "K", ";", ";", ";", "s">>,  \* \xFF;;;b;;;;;;;K;;;s
     <<";", ";", ";", ";", ";", ";", ";", ";", ";", ";", "K", ";", ";", ";", "t">>   \* ;;;;;;;;;;K;;;t
    }

\* Lines of a stop feed: ids and siriIds that repeat and cross, blank name, blank id, short.
StopLines ==
    {<<"a", ";", "b", ";", ";", ";", ";", "N">>,  \* a;b;;;;N
     <<"c", ";", "d", ";", ";", ";", ";", " ">>,  \* c;d;;;; 
     <<"b", ";", "c", ";", ";", ";", ";", "M">>,  \* b;c;;;;M
     <<" ", "a", " ", ";", "d", ";", ";", ";", ";", "P">>,  \*  a ;d;;;;P
     <<";", "e", ";", ";", ";", ";", "Q">>,  \* ;e;;;;Q
     <<"e", ";", "f">>   \* e;f
    }

\* The concatenation of lines, each followed by its line break.
RECURSIVE JoinLines(_)
JoinLines(lines) ==
    IF lines = <<>> THEN <<>>
    ELSE lines[1] \o <<NL>> \o JoinLines(Tail(lines))

\* Every feed of 1..MaxLines lines (the first is the header) drawn from T.
Feeds(T) == {JoinLines(ls) : ls \in UNION {[1..k -> T] : k \in 1..MaxLines}}

Semis(n) == [i \in 1..n |-> Semicolon]

\* The carry-forward example of the specification: "12;;;bus;;;;;;;Kopli;;;1001,1002,1003"
ExampleLine1 ==
    <<"1", "2">> \o Semis(3) \o <<"b", "u", "s">> \o Semis(7)
    \o <<"K", "o", "p", "l", "i">> \o Semis(3)
    \o <<"1", "0", "0", "1", Comma, "1", "0", "0", "2", Comma, "1", "0", "0", "3">>

Linnahall == <<"L", "i", "n", "n", "a", "h", "a", "l", "l">>
Stops2001_2002 == <<"2", "0", "0", "1", Comma, "2", "0", "0", "2">>

\* ";;;;;;;;;;;Linnahall;;;2001,2002" as the specification writes it: eleven
\* semicolons before the direction name.
ExampleLine2AsWritten == Semis(11) \o Linnahall \o Semis(3) \o Stops2001_2002

\* The same line with the direction in column 10 and the stops in column 13:
\* ";;;;;;;;;;Linnahall;;;2001,2002", ten semicolons before the name.
ExampleLine2 == Semis(10) \o Linnahall \o Semis(3) \o Stops2001_2002

ExampleHeader == <<"h">>
ExampleFeedAsWritten == JoinLines(<<ExampleHeader, ExampleLine1, ExampleLine2AsWritten>>)
ExampleFeed == JoinLines(<<ExampleHeader, ExampleLine1, ExampleLine2>>)

RouteFeeds == Feeds(RouteLines) \cup {ExampleFeedAsWritten, ExampleFeed}
StopFeeds == Feeds(StopLines)

\* The accumulator each parser's try_fold starts from.
FoldInit(p) ==
    CASE p = "route" -> RouteFoldInit
      [] p = "type" -> TypeFoldInit
      [] p = "stop" -> StopFoldInit

ParseInit ==
    /\ parser \in {"route", "type", "stop"}
    /\ content \in (IF parser = "stop" THEN StopFeeds ELSE RouteFeeds)
    /\ fold = FoldInit(parser)
    /\ done = FALSE

\* The lengths the next chunk may have when `left` bytes remain.
ChunkLens(left) == {n \in 1..left : n <= MaxChunk \/ n = left}

\* The bytes of the feed that follow those already delivered.
NextChunk(n) == SubSeq(content, Len(fold.buf) + 1, Len(fold.buf) + n)

\* The route stream yields a chunk: one step of the try_fold of get_route_map.
RouteChunk ==
    /\ parser = "route" /\ ~done
    /\ \E n \in ChunkLens(Len(content) - Len(fold.buf)) :
          fold' = extract_route_data_from_buffer_fold(fold, NextChunk(n))
    /\ UNCHANGED <<parser, content, done>>

\* The route stream yields a chunk: one step of the try_fold of get_types.
TypeChunk ==
    /\ parser = "type" /\ ~done
    /\ \E n \in ChunkLens(Len(content) - Len(fold.buf)) :
          fold' = extract_type_from_buffer_fold(fold, NextChunk(n))
    /\ UNCHANGED <<parser, content, done>>

\* The stop stream yields a chunk: one step of the try_fold of get_stop_map.
StopChunk ==
    /\ parser = "stop" /\ ~done
    /\ \E n \in ChunkLens(Len(content) - Len(fold.buf)) :
          fold' = extract_stop_data_from_buffer_fold(fold, NextChunk(n))
    /\ UNCHANGED <<parser, content, done>>

\* The stream ends (after any number of its bytes): try_fold returns the accumulator.
EndOfStream ==
    /\ ~done
    /\ done' = TRUE
    /\ UNCHANGED <<parser, content, fold>>

ParseNext ==
    \/ (RouteChunk /\ UNCHANGED <<cacheVars, engineVars, arrivalVars, indexVars, taskVars>>)
    \/ (TypeChunk /\ UNCHANGED <<cacheVars, engineVars, arrivalVars, indexVars, taskVars>>)
    \/ (StopChunk /\ UNCHANGED <<cacheVars, engineVars, arrivalVars, indexVars, taskVars>>)
    \/ (EndOfStream /\ UNCHANGED <<cacheVars, engineVars, arrivalVars, indexVars, taskVars>>)

InitParse == ParseInit /\ CacheIdle /\ EngineIdle /\ ArrivalIdle /\ IndexIdle /\ TasksIdle

SpecParse == InitParse /\ [][ParseNext]_vars

----------------------------------------------------------------------------
(* One worker serving arrivals requests, one at a time *)

\* A bound of one stop more.
OneStopMore == 5 + 1
\* lib.rs 343: (1..=5).contains(&stop_count)
MaxStops == 5

\* The stop feed upstream serves: "h", "a;b;;;;N", "c;d;;;; ".
EngineStopFeed ==
    JoinLines(<< <<"h">>,
                 <<"a", Semicolon, "b", Semicolon, Semicolon, Semicolon, Semicolon, "N">>,
                 <<"c", Semicolon, "d", Semicolon, Semicolon, Semicolon, Semicolon, " ">> >>)

\* Identifiers a client may send: the id and the siriId of one stop, the id
\* of another, one that no stop has.
Idents == {<<"a">>, <<"b">>, <<"c">>, <<"x">>}

\* The values of the stops query parameter: every list of 1..MaxIds
\* identifiers, lists of five and of six, one with an empty entry, and the
\* empty value.
StopsParams ==
    {JoinCommas(ids) : ids \in UNION {[1..k -> Idents] : k \in 1..MaxIds}}
    \cup {JoinCommas(<< <<"a">>, <<"b">>, <<"c">>, <<"x">>, <<"a">> >>),
          JoinCommas(<< <<"x">>, <<"x">>, <<"x">>, <<"x">>, <<"x">>, <<"x">> >>),
          JoinCommas(<< <<"c">>, <<>>, <<"x">> >>),
          <<>>}

\* Blocks an arrival response may hold.
ResponseBlocks ==
    {
     \* stop b, one low-entry arrival: stop,b\nt,1,5,,,,Z\n
     <<"s", "t", "o", "p", Comma, "b", NL, "t", Comma, "1", Comma, "5", Comma, Comma, Comma, Comma, "Z", NL>>,
     \* stop b, another arrival: stop,b\nt,1,6,,,,\n
     <<"s", "t", "o", "p", Comma, "b", NL, "t", Comma, "1", Comma, "6", Comma, Comma, Comma, Comma, NL>>,
     \* stop d: stop,d\nt,2,7,,,,x\n
     <<"s", "t", "o", "p", Comma, "d", NL, "t", Comma, "2", Comma, "7", Comma, Comma, Comma, Comma, "x", NL>>,
     \* stop b, a time that is no number: stop,b\nt,1,?,,,,Z\n
     <<"s", "t", "o", "p", Comma, "b", NL, "t", Comma, "1", Comma, "?", Comma, Comma, Comma, Comma, "Z", NL>>,
     \* a stop the index does not hold: stop,z\nt,1,5,,,,Z\n
     <<"s", "t", "o", "p", Comma, "z", NL, "t", Comma, "1", Comma, "5", Comma, Comma, Comma, Comma, "Z", NL>>
    }

RECURSIVE Concat(_)
Concat(seqs) == IF seqs = <<>> THEN <<>> ELSE seqs[1] \o Concat(Tail(seqs))

\* stop,b\nt,1,5,,,,Z\n
BlockOfB ==
    <<"s", "t", "o", "p", Comma, "b", NL, "t", Comma, "1", Comma, "5", Comma, Comma, Comma, Comma, "Z", NL>>

\* Bodies with a header that no arrival line follows, before a block and at
\* the end of the body (without and with a last line break), and a body
\* whose text before the first boundary is
\* itself a block: stop,d\nt,2,7,,,,x
FragmentResponses ==
    {<<"H", NL, "s", "t", "o", "p", Comma, "d", NL>> \o BlockOfB,
     <<"H", NL>> \o BlockOfB \o <<"s", "t", "o", "p", Comma, "d">>,
     <<"H", NL>> \o BlockOfB \o <<"s", "t", "o", "p", Comma, "d", NL>>,
     <<"s", "t", "o", "p", Comma, "d", NL, "t", Comma, "2", Comma, "7", Comma, Comma, Comma, Comma, "x", NL>>
        \o BlockOfB}

\* The bodies the batched arrival call may return: a first line, then up to
\* MaxBlocks blocks; and the bodies of FragmentResponses.
ArrivalResponses ==
    {<<"H", NL>> \o Concat(bs) :
        bs \in UNION {[1..k -> ResponseBlocks] : k \in 0..MaxBlocks}}
    \cup FragmentResponses

\* The steps the clock may take: a second, the arrival TTL, and past the TTL
\* of the stop index.
ClockSteps == {1, StopArrivalTtl, StopMapTtl + 1}

\* The request ends with the response r.
Respond(r) ==
    /\ pc' = "done"
    /\ response' = r

\* lib.rs 365-403 once the first cache pass `first` has run over the
\* validated states: the batch key, then the answer (nothing missing) or the
\* batched fetch (update_stops_arrival_cache up to the await of
\* get_stops_arrivals).
AfterFirstPass(stops_request, stop_map, c, first) ==
    /\ pass1' = [taken |-> TRUE, t |-> now, record |-> c.stop_arrival.record,
                 states |-> first.states]
    /\ caches' = [c EXCEPT !.stop_arrival = first.cache]
    /\ \E missing_caches \in MissingCaches(first.states) :
          IF missing_caches # <<>>
          THEN /\ pc' = "arrivals_fetch"
               /\ req' = [req EXCEPT !.stops_request = stops_request,
                                     !.stop_map = stop_map,
                                     !.stop_states = first.states,
                                     !.passes = 1,
                                     !.missing_caches = missing_caches,
                                     !.fetches = @ + 1]
               /\ UNCHANGED response
          ELSE /\ req' = [req EXCEPT !.stops_request = stops_request,
                                     !.stop_map = stop_map,
                                     !.stop_states = first.states,
                                     !.passes = 1]
               /\ Respond(Finalize(first.states))

\* lib.rs 349-403 from the stop index on: validate and the first cache pass
\* (350-364), then the rest.
Resolve(stops_request, stop_map, c) ==
    AfterFirstPass(stops_request, stop_map, c,
                   CachePass(ValidateAll(stops_request, stop_map),
                             c.stop_arrival, now))

\* lib.rs 382-403 once the for loop of update_stops_arrival_cache has ended
\* with `stored`: Err ends the request, else the second cache pass `second`
\* decides the answer.
AfterStore(arrivals_raw, c, stored, second) ==
    IF ~stored.ok
    THEN /\ caches' = [c EXCEPT !.stop_arrival = stored.cache]
         /\ req' = [req EXCEPT !.arrivals_raw = arrivals_raw]
         /\ Respond([kind |-> "error", stops |-> <<>>])
    ELSE /\ caches' = [c EXCEPT !.stop_arrival = second.cache]
         /\ req' = [req EXCEPT !.arrivals_raw = arrivals_raw,
                               !.stop_states = second.states,
                               !.passes = 2]
         /\ Respond(Finalize(second.states))

SecondPass(arrivals_raw, c, stored) ==
    AfterStore(arrivals_raw, c, stored,
               CachePass(req.stop_states, stored.cache, now))

\* services.rs 110-120 and lib.rs 382-403: the blocks of the body are parsed
\* and stored, then the second cache pass and the answer.
Store(arrivals_raw, stop_map, c) ==
    SecondPass(arrivals_raw, c,
               StoreBlocks(FlatMapBlocks(split_arrival_by_stops(arrivals_raw),
                                         stop_map, TodayAt(now)),
                           c.stop_arrival, now))

\* lib.rs 338-348 for a non-empty stops parameter split into `split`, the
\* first get_stop_map having got as far as `cached`.
Accept(split, cached) ==
    IF split = None
    THEN /\ Respond([kind |-> "invalid_parameter", stops |-> <<>>])
         /\ req' = ReqIdle
         /\ pass1' = NoPass1
         /\ UNCHANGED caches
    ELSE IF ~(Len(Unwrap(split)) \in 1..MaxStops)
    THEN /\ Respond([kind |-> "bad_request", stops |-> <<>>])
         /\ req' = [ReqIdle EXCEPT !.stops_request = Unwrap(split)]
         /\ pass1' = NoPass1
         /\ UNCHANGED caches
    ELSE IF IsSome(cached.out)
    THEN Resolve(Unwrap(split), Unwrap(cached.out), cached.caches)
    ELSE /\ pc' = "stops_stream"
         /\ req' = [ReqIdle EXCEPT !.stops_request = Unwrap(split)]
         /\ pass1' = NoPass1
         /\ caches' = cached.caches
         /\ UNCHANGED response

\* A request arrives: lib.rs 326-348, and on when the stop index is cached.
StartRequest(stops_param) ==
    /\ pc = "idle"
    /\ served < MaxRequests
    /\ served' = served + 1
    /\ IF stops_param = <<>>
       THEN /\ Respond([kind |-> "missing_parameter", stops |-> <<>>])
            /\ req' = ReqIdle
            /\ pass1' = NoPass1
            /\ UNCHANGED caches
       ELSE Accept(splits_commas(stops_param), get_stop_map_cached(caches, now))
    /\ UNCHANGED <<now, elapsed>>
    /\ UNCHANGED <<benchVars, parseVars, arrivalVars, indexVars, taskVars>>

\* The stop index and the caches once the stop stream has been folded.
Streamed(got) == Resolve(req.stops_request, Unwrap(got.out), got.caches)

\* The stop stream of the first get_stop_map (lib.rs 348) has been folded.
StopsStream ==
    /\ pc = "stops_stream"
    /\ Streamed(get_stop_map_streamed(caches, now, EngineStopFeed))
    /\ UNCHANGED <<now, elapsed, served>>
    /\ UNCHANGED <<benchVars, parseVars, arrivalVars, indexVars, taskVars>>

\* get_stops_stream or the fold fails: get_stop_map().await? ends the request.
StopsStreamFails ==
    /\ pc \in {"stops_stream", "stops_stream_again"}
    /\ Respond([kind |-> "error", stops |-> <<>>])
    /\ UNCHANGED <<caches, req, pass1>>
    /\ UNCHANGED <<now, elapsed, served>>
    /\ UNCHANGED <<benchVars, parseVars, arrivalVars, indexVars, taskVars>>

\* services.rs 109: the second get_stop_map having got as far as `cached`.
WithStopMap(arrivals_raw, cached) ==
    IF IsSome(cached.out)
    THEN Store(arrivals_raw, Unwrap(cached.out), cached.caches)
    ELSE /\ pc' = "stops_stream_again"
         /\ req' = [req EXCEPT !.arrivals_raw = arrivals_raw]
         /\ caches' = cached.caches
         /\ UNCHANGED response

\* get_stops_arrivals returns a body: services.rs 107-109. The stop index is
\* looked up again; if it is cached the blocks are stored at once.
ArrivalsReturn(arrivals_raw) ==
    /\ pc = "arrivals_fetch"
    /\ WithStopMap(arrivals_raw, get_stop_map_cached(caches, now))
    /\ UNCHANGED <<now, elapsed, served, pass1>>
    /\ UNCHANGED <<benchVars, parseVars, arrivalVars, indexVars, taskVars>>

\* A failed fetch that is attempted once more, and fails again.
ArrivalsFailRetried ==
    /\ pc = "arrivals_fetch"
    /\ Respond([kind |-> "error", stops |-> <<>>])
    /\ req' = [req EXCEPT !.fetches = @ + 1]
    /\ UNCHANGED <<caches, pass1>>
    /\ UNCHANGED <<now, elapsed, served>>
    /\ UNCHANGED <<benchVars, parseVars, arrivalVars, indexVars, taskVars>>

\* get_stops_arrivals fails: update_stops_arrival_cache(..).await? ends the
\* request.
ArrivalsFail ==
    /\ pc = "arrivals_fetch"
    /\ Respond([kind |-> "error", stops |-> <<>>])
    /\ UNCHANGED <<caches, req, pass1>>
    /\ UNCHANGED <<now, elapsed, served>>
    /\ UNCHANGED <<benchVars, parseVars, arrivalVars, indexVars, taskVars>>

StreamedAgain(got) == Store(req.arrivals_raw, Unwrap(got.out), got.caches)

\* The stop stream of the second get_stop_map (services.rs 109) has been
\* folded.
StopsStreamAgain ==
    /\ pc = "stops_stream_again"
    /\ StreamedAgain(get_stop_map_streamed(caches, now, EngineStopFeed))
    /\ UNCHANGED <<now, elapsed, served, pass1>>
    /\ UNCHANGED <<benchVars, parseVars, arrivalVars, indexVars, taskVars>>

\* The handler returns: the response is sent and the locals are dropped.
Return ==
    /\ pc = "done"
    /\ pc' = "idle"
    /\ req' = ReqIdle
    /\ response' = NoResponse
    /\ pass1' = NoPass1
    /\ UNCHANGED <<now, elapsed, served, caches>>
    /\ UNCHANGED <<benchVars, parseVars, arrivalVars, indexVars, taskVars>>

\* The clock advances while the worker is idle or awaits.
Elapse(d) ==
    /\ elapsed < MaxElapses
    /\ elapsed' = elapsed + 1
    /\ now' = now + d
    /\ UNCHANGED <<caches, pc, req, response, served, pass1>>
    /\ UNCHANGED <<benchVars, parseVars, arrivalVars, indexVars, taskVars>>

Next ==
    \/ \E stops_param \in StopsParams : StartRequest(stops_param)
    \/ StopsStream
    \/ StopsStreamFails
    \/ \E arrivals_raw \in ArrivalResponses : ArrivalsReturn(arrivals_raw)
    \/ ArrivalsFail
    \/ StopsStreamAgain
    \/ Return
    \/ \E d \in ClockSteps : Elapse(d)

Init == EngineIdle /\ CacheIdle /\ ParseIdle /\ ArrivalIdle /\ IndexIdle /\ TasksIdle

Spec == Init /\ [][Next]_vars

----------------------------------------------------------------------------
(* The arrival line parser on its own *)

\* The time columns of the lines: seconds since local midnight around the
\* changed hour, the end of the day, the next day and the day after, one that
\* is no number and an empty one.
TimeColumns ==
    {<<"0">>,
     <<"1", "0", "7", "9", "9">>,
     <<"1", "0", "8", "0", "0">>,
     <<"1", "4", "3", "9", "9">>,
     <<"1", "4", "4", "0", "0">>,
     <<"8", "6", "3", "9", "9">>,
     <<"8", "6", "4", "0", "0">>,
     <<"9", "0", "0", "0", "0">>,
     <<"9", "7", "2", "0", "0">>,
     <<"1", "0", "0", "7", "9", "9">>,
     <<"1", "0", "0", "8", "0", "0">>,
     <<"1", "7", "2", "7", "9", "9">>,
     <<"1", "7", "2", "8", "0", "0">>,
     <<"1", "7", "6", "4", "0", "0">>,
     <<"x">>,
     <<>>}

\* What follows the time column: the columns 3 to 5 and an entry code
\* ("Z", other codes, none), further columns, or fewer columns than seven.
LineTails ==
    {<<Comma, Comma, Comma, Comma, "Z">>,
     <<Comma, Comma, Comma, Comma, "x">>,
     <<Comma, Comma, Comma, Comma>>,
     <<Comma, Comma, Comma, Comma, "Z", "Z">>,
     <<Comma, Comma, Comma, Comma, "z">>,
     <<Comma, Comma, Comma, Comma, "Z", Comma, "9">>,
     <<Comma, Comma, Comma>>,
     <<>>}

ArrivalLines ==
    {<<"t", Comma, "1", Comma>> \o time \o tail :
        time \in TimeColumns, tail \in LineTails}

\* The dates Utc::now() may fall on: an ordinary day, the day before and the
\* day of each clock change, the day after the second.
ReferenceDates ==
    {EngineStartDay, SpringForwardDay - 1, SpringForwardDay,
     FallBackDay - 1, FallBackDay, FallBackDay + 1}

ArrivalInit ==
    /\ ref_date \in ReferenceDates
    /\ feed_line \in ArrivalLines
    /\ parsed = NotParsed
    /\ json = None
    /\ block = NoBlock

\* extract_arrival_data is called on the line.
ParseArrival ==
    /\ parsed.stage = "none"
    /\ parsed' = [stage |-> "parsed", out |-> extract_arrival_data(feed_line, ref_date)]
    /\ UNCHANGED <<ref_date, feed_line, json, block>>
    /\ UNCHANGED <<cacheVars, parseVars, engineVars, indexVars, taskVars>>

\* The Arrival of the line is serialized into the response.
SerializeArrival ==
    /\ parsed.stage = "parsed"
    /\ IsSome(parsed.out)
    /\ json = None
    /\ json' = Some(Arrival_serialize(Unwrap(parsed.out).arrivals))
    /\ UNCHANGED <<ref_date, feed_line, parsed, block>>
    /\ UNCHANGED <<cacheVars, parseVars, engineVars, indexVars, taskVars>>

\* A line every date parses: t,2,0,,,,Z
GoodLine == <<"t", Comma, "2", Comma, "0", Comma, Comma, Comma, Comma, "Z">>
\* A line that fails on every date: two columns.
ShortLine == <<"t", Comma, "2">>

\* The arrival lines a block may hold before and after the line under test.
LinesBefore == {<<>>, <<GoodLine>>}
LinesAfter == {<<>>, <<GoodLine>>, <<ShortLine>>, <<<<>>, GoodLine>>}

\* The siriIds a block header may name: one of the stop index, one it lacks.
BlockStopIds == {<<"b">>, <<"z">>}

\* The stop index the blocks are resolved against: EngineStopFeed folded.
BlockStopMap == Unwrap(get_stop_map_streamed(Caches_new, 0, EngineStopFeed).out)

\* The calls of extract_arrival_data the for loop of
\* extract_stop_arrival_list_data makes over `lines`: the iterator is lazy
\* and `arrival?` returns at the first Err, so no later line is mapped.
RECURSIVE LinesEvaluated(_, _)
LinesEvaluated(lines, today) ==
    IF lines = <<>> THEN 0
    ELSE IF lines[1] = <<>> THEN LinesEvaluated(Tail(lines), today)
    ELSE IF extract_arrival_data(lines[1], today) = None THEN 1
    ELSE 1 + LinesEvaluated(Tail(lines), today)

\* extract_arrival_stop_data_from_line hands extract_stop_arrival_list_data
\* the block "stop,<stop_id>", the lines `before`, the line under test and
\* the lines `after`.
ParseBlock(stop_id, before, after) ==
    /\ block.stage = "none"
    /\ LET lines == before \o <<feed_line>> \o after
           stop_lines == JoinLines(<< <<"s", "t", "o", "p", Comma>> \o stop_id >>
                                   \o lines)
       IN block' = [stage |-> "parsed",
                    stop_lines |-> stop_lines,
                    at |-> Len(before) + 1,
                    out |-> extract_stop_arrival_list_data(stop_lines,
                                BlockStopMap, ref_date),
                    evaluated |-> LinesEvaluated(lines, ref_date)]
    /\ UNCHANGED <<ref_date, feed_line, parsed, json>>
    /\ UNCHANGED <<cacheVars, parseVars, engineVars, indexVars, taskVars>>

ArrivalNext ==
    \/ ParseArrival
    \/ SerializeArrival
    \/ \E stop_id \in BlockStopIds, before \in LinesBefore, after \in LinesAfter :
          ParseBlock(stop_id, before, after)

InitArrival == ArrivalInit /\ CacheIdle /\ ParseIdle /\ EngineIdle /\ IndexIdle /\ TasksIdle

SpecArrival == InitArrival /\ [][ArrivalNext]_vars

----------------------------------------------------------------------------
(* The route index and the stop index asked for, one call at a time *)

\* What the two upstream feeds may hold when they are streamed.
IndexRouteFeeds ==
    {ExampleFeed,
     JoinLines(<< <<"h">>,
                  <<"1", ";", ";", ";", "t", ";", ";", ";", ";", ";", ";", ";", "K", ";", ";", ";", "s">>,
                  <<"2", ";", ";", ";", "b", ";", ";", ";", ";", ";", ";", ";", "K", ";", ";", ";", "s">> >>)}
IndexStopFeeds ==
    {EngineStopFeed,
     JoinLines(<< <<"h">>, <<"b", Semicolon, "c", Semicolon, Semicolon, Semicolon, Semicolon, "M">> >>)}

\* The record a cache slot holds has not expired at t.
Unexpired(c, t) == IsSome(c.record) /\ ~Expired(t, Unwrap(c.record).expires_at)

\* The call returns: its result, what it touched on the way, and when the
\* index was derived if it was.
LookupDone(feed, warm, held, got, fetched) ==
    lookup' = [feed |-> feed, stage |-> "done", warm |-> warm,
               raw_read |-> got.raw_read, parsed |-> got.parsed,
               fetched |-> fetched, out |-> got.out, held |-> held,
               built |-> IF got.parsed
                         THEN [lookup.built EXCEPT ![feed] = Some(now)]
                         ELSE lookup.built]

\* The call awaits the upstream stream.
LookupStream(feed, warm, held, got) ==
    lookup' = [lookup EXCEPT !.feed = feed, !.stage = "stream", !.warm = warm,
                             !.raw_read = got.raw_read, !.parsed = FALSE,
                             !.fetched = TRUE, !.out = None, !.held = held]

\* get_route_map is called (lib.rs 192, 229, 275). No derived route index
\* is kept by Caches; `warm` tells that a route index was derived earlier
\* within this very second.
RouteRequested(got) ==
    /\ caches' = got.caches
    /\ IF IsSome(got.out)
       THEN LookupDone("route", lookup.built.route = Some(now), None, got, FALSE)
       ELSE LookupStream("route", lookup.built.route = Some(now), None, got)

RouteRequest ==
    /\ lookup.stage # "stream"
    /\ RouteRequested(get_route_map_cached(caches, now))
    /\ UNCHANGED <<now, pc, req, response, served, pass1, elapsed>>
    /\ UNCHANGED <<benchVars, parseVars, arrivalVars, taskVars>>

\* The route stream has been folded.
RouteFolded(got) ==
    /\ caches' = got.caches
    /\ lookup' = [lookup EXCEPT !.stage = "done", !.parsed = TRUE,
                                !.out = got.out,
                                !.built = [@ EXCEPT !.route = Some(now)]]

RouteStreamed(feed) ==
    /\ lookup.stage = "stream" /\ lookup.feed = "route"
    /\ RouteFolded(get_route_map_streamed(caches, now, feed))
    /\ UNCHANGED <<now, pc, req, response, served, pass1, elapsed>>
    /\ UNCHANGED <<benchVars, parseVars, arrivalVars, taskVars>>

\* get_stop_map is called (lib.rs 348, services.rs 109).
StopRequested(got) ==
    /\ caches' = got.caches
    /\ IF IsSome(got.out)
       THEN LookupDone("stop", Unexpired(caches.stop_map, now), caches.stop_map.record, got, FALSE)
       ELSE LookupStream("stop", Unexpired(caches.stop_map, now), caches.stop_map.record, got)

StopRequest ==
    /\ lookup.stage # "stream"
    /\ StopRequested(get_stop_map_cached(caches, now))
    /\ UNCHANGED <<now, pc, req, response, served, pass1, elapsed>>
    /\ UNCHANGED <<benchVars, parseVars, arrivalVars, taskVars>>

\* The stop stream has been folded.
StopFolded(got) ==
    /\ caches' = got.caches
    /\ lookup' = [lookup EXCEPT !.stage = "done", !.parsed = TRUE,
                                !.out = got.out,
                                !.built = [@ EXCEPT !.stop = Some(now)]]

StopStreamed(feed) ==
    /\ lookup.stage = "stream" /\ lookup.feed = "stop"
    /\ StopFolded(get_stop_map_streamed(caches, now, feed))
    /\ UNCHANGED <<now, pc, req, response, served, pass1, elapsed>>
    /\ UNCHANGED <<benchVars, parseVars, arrivalVars, taskVars>>

\* The types handler is called (lib.rs 152).
TypesRequested(got) ==
    /\ caches' = got.caches
    /\ IF IsSome(got.out)
       THEN LookupDone("types", Unexpired(caches.types, now), caches.types.record, got, FALSE)
       ELSE LookupStream("types", Unexpired(caches.types, now), caches.types.record, got)

TypesRequest ==
    /\ lookup.stage # "stream"
    /\ TypesRequested(get_types_cached(caches, now))
    /\ UNCHANGED <<now, pc, req, response, served, pass1, elapsed>>
    /\ UNCHANGED <<benchVars, parseVars, arrivalVars, taskVars>>

\* The route stream has been folded for the types handler.
TypesFolded(got) ==
    /\ caches' = got.caches
    /\ lookup' = [lookup EXCEPT !.stage = "done", !.parsed = TRUE,
                                !.out = got.out,
                                !.built = [@ EXCEPT !.types = Some(now)]]

TypesStreamed(feed) ==
    /\ lookup.stage = "stream" /\ lookup.feed = "types"
    /\ TypesFolded(get_types_streamed(caches, now, feed))
    /\ UNCHANGED <<now, pc, req, response, served, pass1, elapsed>>
    /\ UNCHANGED <<benchVars, parseVars, arrivalVars, taskVars>>

\* get_routes_stream / get_stops_stream or the fold fails: `.await?` returns
\* the error and nothing is stored.
StreamFails ==
    /\ lookup.stage = "stream"
    /\ lookup' = [lookup EXCEPT !.stage = "done"]
    /\ UNCHANGED <<now, caches, pc, req, response, served, pass1, elapsed>>
    /\ UNCHANGED <<benchVars, parseVars, arrivalVars, taskVars>>

\* Time passes between two steps.
IndexElapse(d) ==
    /\ elapsed < MaxElapses
    /\ elapsed' = elapsed + 1
    /\ now' = now + d
    /\ UNCHANGED <<caches, pc, req, response, served, pass1>>
    /\ UNCHANGED <<benchVars, parseVars, arrivalVars, indexVars, taskVars>>

IndexNext ==
    \/ RouteRequest
    \/ \E feed \in IndexRouteFeeds : RouteStreamed(feed)
    \/ StopRequest
    \/ \E feed \in IndexStopFeeds : StopStreamed(feed)
    \/ TypesRequest
    \/ \E feed \in IndexRouteFeeds : TypesStreamed(feed)
    \/ StreamFails
    \/ \E d \in ClockSteps : IndexElapse(d)

InitIndex == IndexIdle /\ EngineIdle /\ CacheIdle /\ ParseIdle /\ ArrivalIdle /\ TasksIdle

SpecIndex == InitIndex /\ [][IndexNext]_vars

----------------------------------------------------------------------------
(* Claims about the arrival resolution engine, checked under Spec *)

\* The request's identifiers, by position.
Requested == {req.stops_request[i] : i \in 1..Len(req.stops_request)}
\* The identifier is in the stop index the request resolved against.
Known(id) == id \in DOMAIN req.stop_map
SiriOf(id) == req.stop_map[id].siri_id
\* The arrival cache `record` holds an unexpired entry under key at time t.
Fresh(record, key, t) == key \in DOMAIN record /\ t <= record[key].expires_at
\* The stop of a known identifier had an unexpired entry at the first pass.
WarmAtPass1(id) == Fresh(pass1.record, SiriOf(id), pass1.t)
\* The siriIds a batch fetch is to ask for: those of the requested stops that
\* are known and were not warm at the first pass.
ColdSiriIds == {SiriOf(id) : id \in {x \in Requested : Known(x) /\ ~WarmAtPass1(x)}}

\* C1: during one request the batched arrival fetch is issued at most once,
\* and not at all when every requested identifier is unknown to the stop
\* index or had an unexpired arrival-cache entry at the first cache pass.
C1_AtMostOneFetch ==
    /\ req.fetches <= 1
    /\ (pass1.taken /\ \A id \in Requested : ~Known(id) \/ WarmAtPass1(id))
          => req.fetches = 0

\* C1 witness: a second request, answered without any fetch, that named a
\* warm stop and an unknown identifier.
C1_Witness ==
    /\ pc = "done" /\ served = 2 /\ pass1.taken
    /\ response.kind = "ok"
    /\ req.fetches = 0
    /\ \E id \in Requested : Known(id) /\ WarmAtPass1(id)
    /\ \E id \in Requested : ~Known(id)

\* C2: when a batch fetch is issued, the comma-separated pieces of its key
\* are exactly the distinct siriIds of the requested stops still Valid after
\* the first pass (known, not warm), each once; none of an unknown
\* identifier or of a stop already Ready.
C2_BatchKey ==
    req.fetches = 1 =>
        LET pieces == SplitOn(req.missing_caches, Comma) IN
        /\ {pieces[i] : i \in 1..Len(pieces)} = ColdSiriIds
        /\ Len(pieces) = Cardinality(ColdSiriIds)

\* C2 witness: a fetch is awaited whose request named one cold stop more
\* than once, a warm stop and an unknown identifier.
C2_Witness ==
    /\ pc = "arrivals_fetch"
    /\ \E i, j \in 1..Len(req.stops_request) :
          /\ i # j
          /\ Known(req.stops_request[i]) /\ Known(req.stops_request[j])
          /\ SiriOf(req.stops_request[i]) = SiriOf(req.stops_request[j])
          /\ ~WarmAtPass1(req.stops_request[i])
    /\ \E id \in Requested : Known(id) /\ WarmAtPass1(id)
    /\ \E id \in Requested : ~Known(id)

\* The StopArrivals the request read for a known identifier: at the first
\* pass if the stop was warm then, else at the second pass.
ReadFor(id) ==
    IF WarmAtPass1(id) THEN pass1.record[SiriOf(id)].data
    ELSE caches.stop_arrival.record[SiriOf(id)].data

\* C3: a successful response holds one entry per requested identifier, in
\* request order, duplicates included; the entry is null exactly when the
\* identifier is absent from the stop index, and else is the StopArrivals
\* cached under the stop's siriId.
C3_ResponseEntries ==
    (pc = "done" /\ response.kind = "ok") =>
        /\ Len(response.stops) = Len(req.stops_request)
        /\ \A i \in 1..Len(req.stops_request) :
              LET id == req.stops_request[i]
                  entry == response.stops[i]
              IN /\ entry = None <=> ~Known(id)
                 /\ Known(id) =>
                       /\ WarmAtPass1(id)
                             \/ SiriOf(id) \in DOMAIN caches.stop_arrival.record
                       /\ entry = Some(ReadFor(id))
                       /\ Unwrap(entry).id = SiriOf(id)

\* C3 witness: a successful response to a request that named the same stop
\* twice, another stop and an unknown identifier, after a fetch.
C3_Witness ==
    /\ pc = "done" /\ response.kind = "ok" /\ req.fetches = 1
    /\ Len(response.stops) = MaxStops
    /\ \E i \in 1..Len(response.stops) : response.stops[i] = None
    /\ \E i, j \in 1..Len(response.stops) :
          /\ i # j
          /\ IsSome(response.stops[i])
          /\ response.stops[i] = response.stops[j]
    /\ \E i, j \in 1..Len(response.stops) :
          /\ IsSome(response.stops[i]) /\ IsSome(response.stops[j])
          /\ response.stops[i] # response.stops[j]

\* C4: if an identifier is still Valid after the second cache pass, the
\* request ends in an error: no response leaves the identifier out or
\* answers null or an empty result for it, whatever the other entries are.
C4_StillValidIsError ==
    (pc = "done" /\ req.passes = 2
        /\ \E i \in 1..Len(req.stop_states) : req.stop_states[i].tag = "Valid")
    => response.kind = "error"

\* C4 witness: after the second pass one identifier is Ready and another is
\* still Valid, and the request ended in an error.
C4_Witness ==
    /\ pc = "done" /\ req.passes = 2
    /\ \E i \in 1..Len(req.stop_states) : req.stop_states[i].tag = "Valid"
    /\ \E i \in 1..Len(req.stop_states) : req.stop_states[i].tag = "Ready"
    /\ response.kind = "error"

----------------------------------------------------------------------------
(* Claims about the caches, checked under SpecCache *)

\* The last call was a get of the single slot / of key k, after some set.
SingleGetAfterSet == ret.op = "get" /\ ret.key = None /\ IsSome(hist.single)
KeyedGetAfterSet(k) ==
    ret.op = "get" /\ ret.key = Some(k) /\ k \in DOMAIN hist.keyed

\* C6: TTL boundary. A value stored by set at second T (no later set) is
\* returned by every get at a time in T..T+TTL, and every get at T+TTL+1 or
\* later returns a miss; for the single-slot and for the keyed cache.
C6_TtlBoundary ==
    /\ SingleGetAfterSet =>
          LET s == Unwrap(hist.single) IN
          ret.out = IF now <= s.t + single.ttl_secs THEN Some(s.v) ELSE None
    /\ \A k \in CacheKeys : KeyedGetAfterSet(k) =>
          LET s == hist.keyed[k] IN
          ret.out = IF now <= s.t + keyed.ttl_secs THEN Some(s.v) ELSE None

\* C6 witness: a get exactly at T+TTL (TTL > 0) that still returns the value,
\* on the single slot.
C6_Witness ==
    /\ SingleGetAfterSet
    /\ single.ttl_secs > 0
    /\ now = Unwrap(hist.single).t + single.ttl_secs
    /\ ret.out = Some(Unwrap(hist.single).v)

\* C7: lazy eviction. After a get that found its record present but expired
\* (now > expires_at), the record is no longer held: the slot is empty, the
\* key is no longer in the map.
C7_LazyEviction ==
    /\ (SingleGetAfterSet /\ now > Unwrap(hist.single).t + single.ttl_secs)
          => single.record = None
    /\ \A k \in CacheKeys :
          (KeyedGetAfterSet(k) /\ now > hist.keyed[k].t + keyed.ttl_secs)
          => k \notin DOMAIN keyed.record

----------------------------------------------------------------------------
(* Claims about the static parsers, checked under SpecParse *)

\* What each parser computes from the whole buffer given as a single chunk.
OneChunk(p, buf) ==
    CASE p = "route" -> extract_route_data_from_buffer_fold(RouteFoldInit, buf)
      [] p = "type" -> extract_type_from_buffer_fold(TypeFoldInit, buf)
      [] p = "stop" -> extract_stop_data_from_buffer_fold(StopFoldInit, buf)

\* The index get_route_map / get_stop_map rebuilds from the cached raw bytes.
RebuiltRouteMap(buf) ==
    extract_route_data_from_buffer(buf, EmptyMap, LastRouteData_default, 0, FALSE).route_map
RebuiltStopMap(buf) ==
    extract_stop_data_from_buffer(buf, EmptyMap, None, 0, FALSE).stop_map

\* C5: chunk invariance. However the bytes delivered so far were split into
\* chunks, the fold holds the derived structure, carry-forward state,
\* last-consumed offset and header flag that parsing the same bytes as one chunk
\* gives, and the index rebuilt from the raw buffer from offset 0 is the one
\* built while streaming.
C5_ChunkInvariance ==
    /\ fold.buf = SubSeq(content, 1, Len(fold.buf))
    /\ fold.buf # <<>> => fold = OneChunk(parser, fold.buf)
    /\ parser = "route" => fold.route_map = RebuiltRouteMap(fold.buf)
    /\ parser = "stop" => fold.stop_map = RebuiltStopMap(fold.buf)

\* C5 witness: a route stream cut inside a line (the last chunk was at most
\* MaxChunk bytes and left a partial line) after records were built, with a
\* carried-forward type.
C5_Witness ==
    /\ parser = "route"
    /\ fold.route_map # EmptyMap
    /\ IsSome(fold.last_data.last_type)
    /\ Len(fold.buf) > fold.last_processed + 1

\* C8: double keying. For every record r held in the stop index, lookup by
\* r.id and lookup by r.siri_id both succeed and return r itself.
C8_DoubleKeying ==
    parser = "stop" =>
        \A k \in DOMAIN fold.stop_map :
            LET r == fold.stop_map[k] IN
            /\ MapGet(fold.stop_map, r.id) = Some(r)
            /\ MapGet(fold.stop_map, r.siri_id) = Some(r)

Bus == <<"b", "u", "s">>
Route12 == <<"1", "2">>
Kopli == <<"K", "o", "p", "l", "i">>
Stop(a, b, c, d) == <<a, b, c, d>>

\* The record and the (bus, 12) group the example is said to give.
ExampleRecord ==
    [number |-> Route12, route_type |-> Bus, directions |-> Linnahall,
     stops |-> <<Stop("2", "0", "0", "1"), Stop("2", "0", "0", "2")>>]
ExampleIndexed(route_map) ==
    /\ Bus \in DOMAIN route_map
    /\ Route12 \in DOMAIN route_map[Bus]
    /\ Linnahall \in DOMAIN route_map[Bus][Route12].directions
    /\ route_map[Bus][Route12].directions[Linnahall] = ExampleRecord.stops

\* C9 as the specification states it: after "12;;;bus;;;;;;;Kopli;;;1001,1002,1003",
\* the line ";;;;;;;;;;;Linnahall;;;2001,2002" (eleven semicolons) gives a
\* record of route 12, type bus, direction Linnahall, stops [2001, 2002],
\* and the index holds Linnahall -> [2001, 2002] under (bus, 12).
C9_ExampleAsWritten ==
    (parser = "route" /\ content = ExampleFeedAsWritten) =>
        /\ fold.buf = JoinLines(<<ExampleHeader, ExampleLine1>>) =>
              extract_route_data_from_line(ExampleLine2AsWritten, fold.last_data).rec
                  = Some(ExampleRecord)
        /\ fold.buf = content => ExampleIndexed(fold.route_map)

\* C9 amended: the same with the second line ";;;;;;;;;;Linnahall;;;2001,2002"
\* (ten semicolons: direction in column 10, stop list in column 13).
C9_CarryForwardExample ==
    (parser = "route" /\ content = ExampleFeed) =>
        /\ fold.buf = JoinLines(<<ExampleHeader, ExampleLine1>>) =>
              extract_route_data_from_line(ExampleLine2, fold.last_data).rec
                  = Some(ExampleRecord)
        /\ fold.buf = content =>
              /\ ExampleIndexed(fold.route_map)
              /\ fold.route_map[Bus][Route12].number = Route12
              /\ fold.route_map[Bus][Route12].type = Bus
              /\ Kopli \in DOMAIN fold.route_map[Bus][Route12].directions

\* C9 witness: both lines of the amended example have been parsed.
C9_Witness ==
    /\ parser = "route" /\ content = ExampleFeed /\ fold.buf = content
    /\ fold.last_processed = Len(content)
    /\ ExampleIndexed(fold.route_map)

\* The number of complete lines of buf, and the offset just after the k-th.
LineCount(buf) == Cardinality({i \in 1..Len(buf) : buf[i] = NL})
RECURSIVE LineEnd(_, _)
LineEnd(buf, k) ==
    IF k = 0 THEN 0 ELSE FindFrom(buf, NL, LineEnd(buf, k - 1)) + 1
LineAt(buf, k) == SubSeq(buf, LineEnd(buf, k - 1) + 1, LineEnd(buf, k) - 1)
\* The route parser's result on the first k lines of buf.
RouteAfter(buf, k) == OneChunk("route", SubSeq(buf, 1, LineEnd(buf, k)))

\* Data line k of buf has an empty type (number) column and nothing to carry.
NothingToCarry(buf, k) ==
    LET cols == SplitOn(LineAt(buf, k), Semicolon)
        last == RouteAfter(buf, k - 1).last_data
    IN \/ Len(cols) >= 4 /\ Trim(cols[4]) = <<>> /\ last.last_type = None
       \/ Trim(cols[1]) = <<>> /\ last.last_number = None

\* C10: a data line whose type or number column is empty with no earlier value
\* gives no record and leaves the route index as it was, and parsing goes on:
\* every line break of the buffer is consumed, and every data line, the
\* later ones included, is parsed from the state the lines before it left.
C10_NoPriorValue ==
    parser = "route" =>
        /\ fold.last_processed = LineEnd(fold.buf, LineCount(fold.buf))
        /\ \A k \in 2..LineCount(fold.buf) :
              LET before == RouteAfter(fold.buf, k - 1)
                  after == RouteAfter(fold.buf, k)
                  r == extract_route_data_from_line(LineAt(fold.buf, k), before.last_data)
              IN /\ NothingToCarry(fold.buf, k) =>
                       r.rec = None /\ after.route_map = before.route_map
                 /\ after.route_map = IF IsSome(r.rec)
                                      THEN InsertRoute(before.route_map, Unwrap(r.rec))
                                      ELSE before.route_map
                 /\ after.last_data = r.last_data

\* C10 witness: the first data line had nothing to carry and was dropped, and
\* a later line of the same stream gave a record.
C10_Witness ==
    /\ parser = "route"
    /\ LineCount(fold.buf) >= 3
    /\ NothingToCarry(fold.buf, 2)
    /\ RouteAfter(fold.buf, 2).route_map = EmptyMap
    /\ fold.route_map # EmptyMap

\* The Option<RouteData> of every data line of buf, in order, each parsed with
\* the carry-forward state the lines before it left.
RouteRecords(buf) ==
    [k \in 1..(LineCount(buf) - 1) |->
        extract_route_data_from_line(LineAt(buf, k + 1),
                                     RouteAfter(buf, k).last_data).rec]

\* C11: route index invariant. The index holds a group exactly for every
\* (type, number) that gave a record; the group under (t, n) has type t and
\* number n; its directions are those the records of (t, n) named, and each
\* holds the stop list of the last record of its (t, n, direction), nothing
\* of the earlier ones.
C11_RouteIndex ==
    parser = "route" =>
        LET recs == RouteRecords(fold.buf)
            made == {i \in DOMAIN recs : IsSome(recs[i])}
            of(t, n) == {i \in made : Unwrap(recs[i]).route_type = t
                                      /\ Unwrap(recs[i]).number = n}
            last(S) == CHOOSE i \in S : \A j \in S : j <= i
            idx == fold.route_map
        IN /\ DOMAIN idx = {Unwrap(recs[i]).route_type : i \in made}
           /\ \A t \in DOMAIN idx :
                 /\ DOMAIN idx[t] = {Unwrap(recs[i]).number :
                                        i \in {j \in made : Unwrap(recs[j]).route_type = t}}
                 /\ \A n \in DOMAIN idx[t] :
                       /\ idx[t][n].type = t
                       /\ idx[t][n].number = n
                       /\ DOMAIN idx[t][n].directions
                             = {Unwrap(recs[i]).directions : i \in of(t, n)}
                       /\ \A d \in DOMAIN idx[t][n].directions :
                             idx[t][n].directions[d]
                                = Unwrap(recs[last({i \in of(t, n) :
                                            Unwrap(recs[i]).directions = d})]).stops

\* C11 witness: two data lines gave records of the same (type, number,
\* direction) with different stop lists, and the index holds the later list.
C11_Witness ==
    /\ parser = "route"
    /\ LET recs == RouteRecords(fold.buf) IN
       /\ Len(recs) = 2 /\ IsSome(recs[1]) /\ IsSome(recs[2])
       /\ Unwrap(recs[1]).route_type = Unwrap(recs[2]).route_type
       /\ Unwrap(recs[1]).number = Unwrap(recs[2]).number
       /\ Unwrap(recs[1]).directions = Unwrap(recs[2]).directions
       /\ Unwrap(recs[1]).stops # Unwrap(recs[2]).stops
       /\ Unwrap(recs[1]).stops # <<>>
       /\ fold.route_map[Unwrap(recs[2]).route_type][Unwrap(recs[2]).number]
              .directions[Unwrap(recs[2]).directions] = Unwrap(recs[2]).stops

\* One identifier's state p may become s within a request.
ForwardStep(p, s) ==
    CASE p.tag = "Invalid" -> s = p
      [] p.tag = "Ready" -> s = p
      [] p.tag = "Valid" -> s = p \/ s.tag = "Ready"

\* C12: forward-only resolution. The step that resolves a request's
\* identifiers leaves each Invalid (exactly when the stop index lacks it),
\* Valid or Ready; every later step of the same request keeps an Invalid
\* state Invalid, keeps a Ready state Ready with the same arrivals, and
\* leaves a Valid state Valid or makes it Ready.
C12_ForwardOnly ==
    [][/\ (~pass1.taken /\ pass1'.taken) =>
             /\ Len(req'.stop_states) = Len(req'.stops_request)
             /\ \A i \in 1..Len(req'.stop_states) :
                   /\ req'.stop_states[i].tag \in {"Invalid", "Valid", "Ready"}
                   /\ req'.stop_states[i].tag = "Invalid"
                         <=> req'.stops_request[i] \notin DOMAIN req'.stop_map
       /\ (pass1.taken /\ pass1'.taken) =>
             /\ Len(req'.stop_states) = Len(req.stop_states)
             /\ \A i \in 1..Len(req.stop_states) :
                   ForwardStep(req.stop_states[i], req'.stop_states[i])
      ]_vars

\* C12 witness: after the second pass an identifier that was Ready at the
\* first pass holds the arrivals it had then although the cache now holds
\* other arrivals under its key, another went from Valid to Ready, and one
\* is Invalid.
C12_Witness ==
    /\ pc = "done" /\ req.passes = 2
    /\ \E i \in 1..Len(pass1.states) :
          /\ pass1.states[i].tag = "Ready"
          /\ req.stop_states[i] = pass1.states[i]
          /\ caches.stop_arrival.record[Unwrap(pass1.states[i].arrivals).id].data
                # Unwrap(pass1.states[i].arrivals)
    /\ \E i \in 1..Len(pass1.states) :
          pass1.states[i].tag = "Valid" /\ req.stop_states[i].tag = "Ready"
    /\ \E i \in 1..Len(pass1.states) : req.stop_states[i].tag = "Invalid"

----------------------------------------------------------------------------
(* Claims about the arrival line parser, checked under SpecArrival *)

\* The columns of the line under test, and its columns 2 and 6 if present.
LineColumns == SplitOn(feed_line, Comma)
TimeColumn == IF Len(LineColumns) >= 3 THEN Some(LineColumns[3]) ELSE None
EntryCode == IF Len(LineColumns) >= 7 THEN Some(LineColumns[7]) ELSE None
\* The seconds since midnight the line gives, if its time column is a number.
LineSeconds == IF IsSome(TimeColumn) THEN ParseU32(Unwrap(TimeColumn)) ELSE None
\* The line's time column is a number that the conversion resolves.
TimeResolves ==
    /\ IsSome(LineSeconds)
    /\ IsSome(seconds_from_midnight_to_utc_iso(Unwrap(LineSeconds), ref_date))

\* C13: entry classification. A line whose time resolves gives an Arrival;
\* it is low-entry, and is serialized with isLowEntry: true, exactly when
\* its entry code (column 6) is "Z"; with any other code, or with no entry
\* code at all, it is a regular Arrival serialized without isLowEntry.
C13_EntryClassification ==
    (parsed.stage = "parsed" /\ TimeResolves) =>
        /\ IsSome(parsed.out)
        /\ Unwrap(parsed.out).arrivals.low_entry = (EntryCode = Some(<<"Z">>))
        /\ IsSome(json) =>
              /\ ("isLowEntry" \in DOMAIN Unwrap(json)) = (EntryCode = Some(<<"Z">>))
              /\ "isLowEntry" \in DOMAIN Unwrap(json) => Unwrap(json)["isLowEntry"] = TRUE
              /\ Unwrap(json)["time"] = Unwrap(parsed.out).arrivals.time

\* The line carries every column the parser requires, so only its time
\* column decides whether it parses.
FullLine == IsSome(EntryCode)
\* The local date and time of day exist on the Tallinn clock.
LocalExists(date, secs) == ~(date = SpringForwardDay /\ InChangedHour(secs))
\* The parsed time is an instant at which the Tallinn clock, at one of its
\* two offsets, shows the local date and time of day given.
ShowsLocal(date, secs) ==
    /\ IsSome(parsed.out)
    /\ \E offset \in {EetOffset, EestOffset} :
          LET t == Unwrap(parsed.out).arrivals.time IN
          t.date * SecondsPerDay + t.time + offset = date * SecondsPerDay + secs
\* The seconds of a parsed, complete line.
LineParsedWith(s) == parsed.stage = "parsed" /\ FullLine /\ LineSeconds = Some(s)
\* The values the time column takes in the lines under test.
LineSecondsValues == {DecimalValue(t) : t \in {c \in TimeColumns : ParseU32(c) # None}}

\* C14 as stated: every s >= 86400 resolves the time of day s mod 86400 on
\* the day after the reference date; s < 86400 resolves s on the reference
\* date (wherever that local time exists).
C14_EveryLaterValueWraps ==
    \A s \in LineSecondsValues :
        LineParsedWith(s) =>
            LET secs == s % SecondsPerDay
                date == IF s >= SecondsPerDay THEN ref_date + 1 ELSE ref_date
            IN LocalExists(date, secs) => ShowsLocal(date, secs)

\* C14, amended: next-day wraparound covers one day. A value s with
\* 86400 <= s < 172800 resolves the time of day s - 86400 on the day after
\* the reference date, a value s < 86400 resolves s on the reference date,
\* and a value s >= 172800 is an error: the line does not parse.
C14_NextDayWraparound ==
    \A s \in LineSecondsValues :
        LineParsedWith(s) =>
            IF s >= 2 * SecondsPerDay THEN parsed.out = None
            ELSE LET secs == IF s >= SecondsPerDay THEN s - SecondsPerDay ELSE s
                     date == IF s >= SecondsPerDay THEN ref_date + 1 ELSE ref_date
                 IN LocalExists(date, secs) => ShowsLocal(date, secs)

\* The example of the specification: 90000 resolves to 01:00 local time on
\* the day after the reference date, which is 23:00 UTC of the reference
\* date in winter.
C14_Witness ==
    /\ LineParsedWith(90000)
    /\ ref_date = EngineStartDay
    /\ IsSome(parsed.out)
    /\ Unwrap(parsed.out).arrivals.time = [date |-> EngineStartDay, time |-> 23 * SecondsPerHour]

\* The local date and time of day the code hands to from_local_datetime for
\* a line with s seconds since midnight, s below two days.
LocalDate(s) == IF s >= SecondsPerDay THEN ref_date + 1 ELSE ref_date
LocalSecs(s) == IF s >= SecondsPerDay THEN s - SecondsPerDay ELSE s
\* The UTC instant parsed from the line, in seconds since day 0.
ParsedInstant ==
    LET t == Unwrap(parsed.out).arrivals.time IN t.date * SecondsPerDay + t.time
\* The instant at which the clock shows the local date and time at an offset.
InstantAt(date, secs, offset) == date * SecondsPerDay + secs - offset
\* The local time comes twice: the hour from 03:00 on the fall-back day.
Repeated(date, secs) == date = FallBackDay /\ InChangedHour(secs)
\* The local time is skipped: the hour from 03:00 on the spring-forward day.
Skipped(date, secs) == date = SpringForwardDay /\ InChangedHour(secs)

\* C15: DST disambiguation. A local time in the repeated fall-back hour
\* resolves to the earlier of its two UTC instants (the summer-time one); a
\* local time in the skipped spring-forward hour is an error and no time is
\* returned; any other local time resolves to its single instant.
C15_DstDisambiguation ==
    \A s \in LineSecondsValues :
        (LineParsedWith(s) /\ s < 2 * SecondsPerDay) =>
            LET date == LocalDate(s)
                secs == LocalSecs(s)
            IN IF Skipped(date, secs) THEN parsed.out = None
               ELSE /\ IsSome(parsed.out)
                    /\ IF Repeated(date, secs)
                       THEN /\ ParsedInstant = InstantAt(date, secs, EestOffset)
                            /\ ParsedInstant < InstantAt(date, secs, EetOffset)
                       ELSE ParsedInstant = InstantAt(date, secs,
                                IF SummerTime(date, secs) THEN EestOffset ELSE EetOffset)

\* A line of the repeated hour, reached through next-day wraparound, has
\* been parsed to the earlier instant: 03:00 local on the fall-back day is
\* 00:00 UTC of that day.
C15_Witness ==
    /\ LineParsedWith(97200)
    /\ ref_date = FallBackDay - 1
    /\ IsSome(parsed.out)
    /\ Unwrap(parsed.out).arrivals.time = [date |-> FallBackDay, time |-> 0]

----------------------------------------------------------------------------
(* Claims about bad lines of the static feeds, checked under SpecParse *)

\* buf with the bytes of its line k taken out and the line break kept: the
\* same feed with a line k that carries no data.
Blanked(buf, k) ==
    SubSeq(buf, 1, LineEnd(buf, k - 1)) \o SubSeq(buf, LineEnd(buf, k), Len(buf))

HasInvalidByte(bytes) == \E i \in 1..Len(bytes) : bytes[i] = InvalidByte
\* Column c (zero-based) of a line is missing, or empty once trimmed.
NoColumn(cols, c) == c >= Len(cols) \/ Trim(cols[c + 1]) = <<>>
\* Column c of a line is there and is not valid UTF-8.
BadColumn(cols, c) == c < Len(cols) /\ HasInvalidByte(cols[c + 1])

\* Line k of a route feed is a bad line: a column read is not valid UTF-8,
\* the type column is missing, the direction is missing or empty, or the type
\* or number is empty with nothing to carry forward.
BadRouteLine(buf, k) ==
    LET cols == SplitOn(LineAt(buf, k), Semicolon) IN
    \/ \E c \in {0, 3, 10, 13} : BadColumn(cols, c)
    \/ Len(cols) < 4
    \/ NoColumn(cols, 10)
    \/ NothingToCarry(buf, k)

\* Line k of a stop feed is a bad line: a column read is not valid UTF-8, the
\* id or siriId is missing or empty, or the name is empty with no earlier one.
BadStopLine(buf, k) ==
    LET cols == SplitOn(LineAt(buf, k), Semicolon) IN
    \/ \E c \in {0, 1, 5} : BadColumn(cols, c)
    \/ NoColumn(cols, 0)
    \/ NoColumn(cols, 1)
    \/ NoColumn(cols, 5) /\ OneChunk("stop", SubSeq(buf, 1, LineEnd(buf, k - 1))).last_name = None

\* Line k of a route feed gives no type: its type column is missing, empty or
\* not valid UTF-8.
BadTypeLine(buf, k) ==
    LET cols == SplitOn(LineAt(buf, k), Semicolon) IN
    Len(cols) < 4 \/ cols[4] = <<>> \/ BadColumn(cols, 3)

BadLine(p, buf, k) ==
    CASE p = "route" -> BadRouteLine(buf, k)
      [] p = "type" -> BadTypeLine(buf, k)
      [] p = "stop" -> BadStopLine(buf, k)

\* The derived structure of a parser's fold state.
Derived(p, f) ==
    CASE p = "route" -> f.route_map
      [] p = "type" -> f.type_set
      [] p = "stop" -> f.stop_map

\* Every line break delivered has been consumed: the offset stands just
\* after the last one, whatever the lines held.
OffsetPastEveryLine == fold.last_processed = LineEnd(fold.buf, LineCount(fold.buf))

\* The bad data line k added nothing to the derived structure.
AddsNothing(p, buf, k) ==
    Derived(p, OneChunk(p, SubSeq(buf, 1, LineEnd(buf, k))))
        = Derived(p, OneChunk(p, SubSeq(buf, 1, LineEnd(buf, k - 1))))

\* The lines other than k contribute what they would if line k carried no data.
AsIfNoData(p, buf, k) == Derived(p, fold) = Derived(p, OneChunk(p, Blanked(buf, k)))

\* The bad route line k left the carried-forward type and number as they were.
CarryUntouched(buf, k) == RouteAfter(buf, k).last_data = RouteAfter(buf, k - 1).last_data

\* C16 as stated: in all three parsers a bad line is skipped, the offset
\* moves past it, and every other line contributes exactly as it would if
\* the bad line carried no data.
C16_AsIfNoDataEverywhere ==
    /\ OffsetPastEveryLine
    /\ \A k \in 2..LineCount(fold.buf) :
          BadLine(parser, fold.buf, k) =>
              AddsNothing(parser, fold.buf, k) /\ AsIfNoData(parser, fold.buf, k)

\* C16, amended: static-feed robustness. A bad line (missing columns, empty
\* required fields, invalid UTF-8) never stops a parser: the offset stands
\* past every line break delivered and the bad line adds no record. In the
\* stop and type feeds every other line contributes exactly as it would if
\* the bad line carried no data. In the route feed that holds when the bad
\* line left the carried-forward type and number untouched; a bad route
\* line whose type (and number) resolved before it failed still replaces the
\* carried-forward values, and later lines inherit them.
C16_StaticFeedRobustness ==
    /\ OffsetPastEveryLine
    /\ \A k \in 2..LineCount(fold.buf) :
          BadLine(parser, fold.buf, k) =>
              /\ AddsNothing(parser, fold.buf, k)
              /\ (parser = "route" => CarryUntouched(fold.buf, k))
                     => AsIfNoData(parser, fold.buf, k)

\* C16 witness: a route stream whose first data line was bad (not valid
\* UTF-8) has been consumed to its end, and the line after it gave a record.
C16_Witness ==
    /\ parser = "route" /\ done
    /\ LineCount(fold.buf) = 3
    /\ HasInvalidByte(LineAt(fold.buf, 2))
    /\ fold.last_processed = Len(content)
    /\ fold.route_map # EmptyMap

----------------------------------------------------------------------------
(* Claims about the derived indexes, checked under SpecIndex *)

\* The call under way has returned.
Returned(feed) == lookup.stage = "done" /\ lookup.feed = feed
\* The call read no raw bytes, parsed nothing and made no network call.
TouchedNothing == ~lookup.raw_read /\ ~lookup.parsed /\ ~lookup.fetched

----------------------------------------------------------------------------
(* Claims about the request checks of get_stop_arrivals, checked under Spec *)

\* The answers that report an error in the client's input.
ClientInputErrors == {"missing_parameter", "invalid_parameter", "bad_request"}
\* A request arrives in this step; req' holds its split identifier list.
Arrives == pc = "idle" /\ pc' # "idle"

\* C18: identifier-count bound. A request whose identifier list, split at
\* the commas, has fewer than 1 or more than 5 entries is answered at once
\* with a client-input error: no stop index is loaded, no cache is read or
\* written, nothing is fetched. A request with 1 to 5 entries is not
\* rejected for its count.
C18_CountBound ==
    [][Arrives =>
          /\ ~(Len(req'.stops_request) \in 1..5) =>
                /\ pc' = "done"
                /\ response'.kind \in ClientInputErrors
                /\ caches' = caches
                /\ req'.stop_map = EmptyMap /\ req'.stop_states = <<>>
                /\ req'.fetches = 0 /\ req'.passes = 0
          /\ Len(req'.stops_request) \in 1..5 => response'.kind # "bad_request"
      ]_vars

\* C18 witness: a request of six identifiers has been rejected while the
\* stop index and an arrival were cached.
C18_Witness ==
    /\ pc = "done"
    /\ response.kind = "bad_request"
    /\ Len(req.stops_request) = 6
    /\ IsSome(caches.stop_map.record)
    /\ caches.stop_arrival.record # EmptyMap

----------------------------------------------------------------------------
(* Claims about set, checked under SpecCache, and about calls on a borrowed
   cell, checked under SpecBorrow *)

\* The last call was a set (a get) on the single slot / on key k.
SingleCall(op) == ret.op = op /\ ret.key = None
KeyedCall(op, k) == ret.op = op /\ ret.key = Some(k)

\* C19: set replaces wholesale. After a set of value v at second T with no
\* borrow conflict the slot holds exactly v with expiry T + TTL, whatever
\* it held before (nothing, an unexpired or an expired record); in the keyed
\* cache the key holds exactly v with expiry T + TTL and every other key
\* holds what it held.
C19_SetReplaces ==
    /\ (SingleCall("set") /\ single.borrow = 0) =>
          /\ ret.ok
          /\ single.record = Some([data |-> Unwrap(hist.single).v,
                                   expires_at |-> now + single.ttl_secs])
          /\ Unwrap(hist.single).t = now
    /\ \A k \in CacheKeys : (KeyedCall("set", k) /\ keyed.borrow = 0) =>
          /\ ret.ok
          /\ DOMAIN keyed.record = DOMAIN ret.before \cup {k}
          /\ keyed.record[k] = [data |-> hist.keyed[k].v,
                                expires_at |-> now + keyed.ttl_secs]
          /\ hist.keyed[k].t = now
          /\ \A j \in DOMAIN ret.before \ {k} : keyed.record[j] = ret.before[j]

\* C19 witness: a set has replaced an expired record that held another value.
C19_Witness ==
    /\ SingleCall("set") /\ ret.ok
    /\ IsSome(ret.before)
    /\ now > Unwrap(ret.before).expires_at
    /\ Unwrap(ret.before).data # Unwrap(single.record).data
    /\ single.ttl_secs > 0

\* C20: reentrant-conflict degradation. A set that finds the cell borrowed
\* (read or written) stores nothing, leaves the cell as it was and returns
\* failure; a get that finds the cell being written returns a miss and leaves
\* the cell as it was; a get whose eviction cannot take the cell returns a
\* miss all the same. Every call returns a value.
C20_ConflictDegrades ==
    /\ (SingleCall("set") /\ single.borrow # 0) =>
          ~ret.ok /\ single.record = ret.before
    /\ (SingleCall("get") /\ single.borrow < 0) =>
          ret.out = None /\ single.record = ret.before
    /\ (SingleCall("get") /\ single.borrow > 0 /\ IsSome(ret.before)
           /\ now > Unwrap(ret.before).expires_at) =>
          ret.out = None /\ single.record = ret.before
    /\ \A k \in CacheKeys :
          /\ (KeyedCall("set", k) /\ keyed.borrow # 0) =>
                ~ret.ok /\ keyed.record = ret.before
          /\ (KeyedCall("get", k) /\ keyed.borrow < 0) =>
                ret.out = None /\ keyed.record = ret.before
          /\ (KeyedCall("get", k) /\ keyed.borrow > 0 /\ k \in DOMAIN ret.before
                 /\ now > ret.before[k].expires_at) =>
                ret.out = None /\ keyed.record = ret.before
    /\ ret.op \in {"new", "tick", "set", "get"}

\* C20 witness: a set on a cell that is being read has failed and the
\* unexpired record is still there.
C20_Witness ==
    /\ SingleCall("set") /\ single.borrow > 0
    /\ ~ret.ok
    /\ IsSome(single.record)
    /\ now <= Unwrap(single.record).expires_at

----------------------------------------------------------------------------
(* Claims about the header line and the unterminated tail, checked under
   SpecParse *)

\* The derived structure before any line has been parsed.
EmptyDerived(p) == IF p = "type" THEN {} ELSE EmptyMap

\* What a parser derives from the bytes `rest` when every terminated line
\* of them is parsed as data: the buffer function entered with the header
\* flag already set.
AllAsData(p, rest) ==
    CASE p = "route" -> extract_route_data_from_buffer(rest, EmptyMap, LastRouteData_default, 0, TRUE).route_map
      [] p = "type" -> extract_type_from_buffer(rest, {}, 0, TRUE).type_set
      [] p = "stop" -> extract_stop_data_from_buffer(rest, EmptyMap, None, 0, TRUE).stop_map

\* The bytes of buf after its first line break.
AfterHeader(buf) == SubSeq(buf, LineEnd(buf, 1) + 1, Len(buf))

\* C21: header skip. In every static parser the header flag is set exactly
\* when a first line break has been delivered, wherever the chunks were cut;
\* the first terminated line gives nothing, whatever it holds; the derived
\* structure is what parsing every later terminated line as data gives; and
\* the flag, once set, stays set.
C21_HeaderSkip ==
    /\ [](/\ fold.first_line_skipped = (LineCount(fold.buf) >= 1)
          /\ LineCount(fold.buf) = 0 => Derived(parser, fold) = EmptyDerived(parser)
          /\ LineCount(fold.buf) >= 1 =>
                /\ Derived(parser, OneChunk(parser, SubSeq(fold.buf, 1, LineEnd(fold.buf, 1))))
                      = EmptyDerived(parser)
                /\ Derived(parser, fold) = AllAsData(parser, AfterHeader(fold.buf))
                /\ Derived(parser, fold) = Derived(parser, OneChunk(parser, Blanked(fold.buf, 1))))
    /\ [][fold.first_line_skipped => fold'.first_line_skipped]_vars

\* C21 witness: the header of a route stream was a well-formed data line and
\* was cut by a chunk boundary; the line after it, which has neither type nor
\* number of its own, found nothing to carry and the index is empty.
C21_Witness ==
    /\ parser = "route" /\ done
    /\ LineCount(fold.buf) = 2
    /\ IsSome(extract_route_data_from_line(LineAt(fold.buf, 1), LastRouteData_default).rec)
    /\ Len(LineAt(fold.buf, 1)) > MaxChunk
    /\ NothingToCarry(fold.buf, 2)
    /\ fold.route_map = EmptyMap

\* The offset just after the last line break of buf, 0 if it has none.
AfterLastLineBreak(buf) == LineEnd(buf, LineCount(buf))
\* The bytes of buf up to its last line break, and the unterminated rest.
Terminated(buf) == SubSeq(buf, 1, AfterLastLineBreak(buf))
PartialLine(buf) == SubSeq(buf, AfterLastLineBreak(buf) + 1, Len(buf))

\* C22: partial-line retention. After every chunk the last-consumed offset
\* stands just after the last line break of the accumulated buffer (0 if it
\* has none); the buffer holds every byte delivered, the unterminated ones
\* included; and the derived structure, the carry-forward state and the
\* header flag are those of the terminated lines alone, so the unterminated
\* bytes have contributed nothing, also when the stream has ended.
C22_PartialLineRetention ==
    parser # "none" =>
        /\ fold.last_processed = AfterLastLineBreak(fold.buf)
        /\ fold.buf = SubSeq(content, 1, Len(fold.buf))
        /\ [fold EXCEPT !.buf = Terminated(fold.buf)]
              = OneChunk(parser, Terminated(fold.buf))

\* C22 witness: a stop stream has ended inside a line that would have given
\* a record had its line break arrived, and the index holds no stop.
C22_Witness ==
    /\ parser = "stop" /\ done
    /\ LineCount(fold.buf) >= 1
    /\ PartialLine(fold.buf) # <<>>
    /\ IsSome(extract_stop_data_from_line(PartialLine(fold.buf), fold.last_name))
    /\ fold.stop_map = EmptyMap

----------------------------------------------------------------------------
(* Claims about carry-forward and trimming, checked under SpecParse *)

\* The value a column gives to carry forward: its trimmed text if the line
\* has the column and it is not empty, else nothing.
Given(cols, c) == IF c < Len(cols) THEN TrimNonEmpty(cols[c + 1]) ELSE None

\* The last non-empty value of column c seen on the data lines 2..k of buf,
\* each column on its own, whatever became of the lines; lines whose type or
\* number column is not valid UTF-8 are passed over.
RECURSIVE LastSeen(_, _, _)
LastSeen(buf, k, c) ==
    IF k <= 1 THEN None
    ELSE LET cols == SplitOn(LineAt(buf, k), Semicolon) IN
         IF BadColumn(cols, 0) \/ BadColumn(cols, 3) \/ Given(cols, c) = None
         THEN LastSeen(buf, k - 1, c)
         ELSE Given(cols, c)

\* C23: route carry-forward retention. After every data line the parser
\* holds, for the type column and for the number column independently, the
\* last non-empty trimmed value seen on any data line so far, also when the
\* line that gave it was dropped.
C23_IndependentRetention ==
    parser = "route" =>
        \A k \in 1..LineCount(fold.buf) :
            RouteAfter(fold.buf, k).last_data
                = [last_type |-> LastSeen(fold.buf, k, 3),
                   last_number |-> LastSeen(fold.buf, k, 0)]

\* The retention that does hold: the type is retained from every line that
\* gives one; the number is retained from the lines whose type resolved
\* (given on the line or carried).
RECURSIVE LastNumberKept(_, _)
LastNumberKept(buf, k) ==
    IF k <= 1 THEN None
    ELSE LET cols == SplitOn(LineAt(buf, k), Semicolon) IN
         IF BadColumn(cols, 0) \/ BadColumn(cols, 3) \/ Len(cols) < 4
            \/ LastSeen(buf, k, 3) = None \/ Given(cols, 0) = None
         THEN LastNumberKept(buf, k - 1)
         ELSE Given(cols, 0)

RetentionAfterType ==
    parser = "route" =>
        \A k \in 1..LineCount(fold.buf) :
            RouteAfter(fold.buf, k).last_data
                = [last_type |-> LastSeen(fold.buf, k, 3),
                   last_number |-> LastNumberKept(fold.buf, k)]

\* The stop parser's result on the first k lines of buf.
StopAfter(buf, k) == OneChunk("stop", SubSeq(buf, 1, LineEnd(buf, k)))

\* A stop line all of whose columns read are valid UTF-8.
DecodableStopLine(cols) == \A c \in {0, 1, 5} : ~BadColumn(cols, c)

\* The last non-empty name seen on the data lines 2..k of buf, whether or
\* not the line gave a record.
RECURSIVE LastNameSeen(_, _)
LastNameSeen(buf, k) ==
    IF k <= 1 THEN None
    ELSE LET cols == SplitOn(LineAt(buf, k), Semicolon) IN
         IF ~DecodableStopLine(cols) \/ Given(cols, 5) = None
         THEN LastNameSeen(buf, k - 1)
         ELSE Given(cols, 5)

\* The last non-empty name among the data lines 2..k of buf that gave a
\* record.
RECURSIVE LastNameRecorded(_, _)
LastNameRecorded(buf, k) ==
    IF k <= 1 THEN None
    ELSE LET r == extract_stop_data_from_line(LineAt(buf, k), StopAfter(buf, k - 1).last_name) IN
         IF IsSome(r) THEN Some(Unwrap(r).name) ELSE LastNameRecorded(buf, k - 1)

\* What data line k gives when an empty name inherits `carried`: no record
\* if the id or the siriId is empty or no name is to be had, else the
\* line's own id and siriId with the name.
StopLineWith(buf, k, carried) ==
    LET cols == SplitOn(LineAt(buf, k), Semicolon)
        name == OrElse(Given(cols, 5), carried)
    IN IF ~DecodableStopLine(cols) \/ Given(cols, 0) = None
          \/ Given(cols, 1) = None \/ name = None
       THEN None
       ELSE Some([id |-> Unwrap(Given(cols, 0)), siri_id |-> Unwrap(Given(cols, 1)),
                  name |-> Unwrap(name)])

\* The Option<StopData> the parser got from data line k.
StopLineResult(buf, k) ==
    extract_stop_data_from_line(LineAt(buf, k), StopAfter(buf, k - 1).last_name)

\* C24: stop carry-forward. Only the name is carried: a line with an empty
\* name inherits the last non-empty name seen on an earlier data line, a
\* line that gave no record included; a line with an empty id or siriId gives
\* no record and inherits neither.
C24_StopCarryForward ==
    parser = "stop" =>
        \A k \in 2..LineCount(fold.buf) :
            StopLineResult(fold.buf, k)
                = StopLineWith(fold.buf, k, LastNameSeen(fold.buf, k - 1))

\* The carry-forward that does hold: the name inherited is the name of the
\* last earlier line that gave a record.
NameOfLastRecord ==
    parser = "stop" =>
        \A k \in 2..LineCount(fold.buf) :
            StopLineResult(fold.buf, k)
                = StopLineWith(fold.buf, k, LastNameRecorded(fold.buf, k - 1))

\* A stored value has no surrounding whitespace and is not empty.
Trimmed(v) == v # <<>> /\ Trim(v) = v

\* The route type, route number and direction names of the route index, and
\* the id, siriId and name of every stop of the stop index, are trimmed and
\* not empty.
TrimmedKeysAndNames ==
    /\ parser = "route" =>
          \A t \in DOMAIN fold.route_map : \A n \in DOMAIN fold.route_map[t] :
              LET group == fold.route_map[t][n] IN
              /\ Trimmed(t) /\ Trimmed(n)
              /\ Trimmed(group.type) /\ Trimmed(group.number)
              /\ \A d \in DOMAIN group.directions : Trimmed(d)
    /\ parser = "stop" =>
          \A key \in DOMAIN fold.stop_map :
              LET stop == fold.stop_map[key] IN
              /\ Trimmed(key)
              /\ Trimmed(stop.id) /\ Trimmed(stop.siri_id) /\ Trimmed(stop.name)

\* C25: trim-then-absent rule. Every value the static parsers store (route
\* number, route type, direction name, each stop id of a stop list, stop id,
\* siriId, stop name, each member of the distinct-type set) is trimmed, and
\* none is empty or whitespace only.
C25_TrimThenAbsent ==
    /\ TrimmedKeysAndNames
    /\ parser = "route" =>
          \A t \in DOMAIN fold.route_map : \A n \in DOMAIN fold.route_map[t] :
              \A d \in DOMAIN fold.route_map[t][n].directions :
                  LET stops == fold.route_map[t][n].directions[d] IN
                  \A i \in 1..Len(stops) : Trimmed(stops[i])
    /\ parser = "type" => \A t \in fold.type_set : Trimmed(t)

----------------------------------------------------------------------------
(* Claims about the refresh of the arrival cache, checked under Spec *)

\* In this step update_stops_arrival_cache, holding the response body and
\* the stop index, runs its loop over the blocks and the request ends.
Refreshes ==
    /\ pc \in {"arrivals_fetch", "stops_stream_again"} /\ pc' = "done"
    /\ req'.arrivals_raw # <<>>
    /\ Unexpired(caches'.stop_map, now)

\* The Result of every block of the body of that refresh, in order.
BlockResults ==
    FlatMapBlocks(split_arrival_by_stops(req'.arrivals_raw),
                  Unwrap(caches'.stop_map.record).data, TodayAt(now))
\* The index of the first block that failed, one past the last if none did.
FirstFailure(results) ==
    IF \A i \in 1..Len(results) : results[i] # None THEN Len(results) + 1
    ELSE CHOOSE k \in 1..Len(results) :
             results[k] = None /\ \A i \in 1..(k - 1) : results[i] # None

\* What holds of a refresh step whose block results are `results`, if one
\* of them is a failure.
KthBlockFails(results) ==
    LET k == FirstFailure(results)
        before == caches.stop_arrival.record
        after == caches'.stop_arrival.record
        earlier == {Unwrap(results[i]).id : i \in 1..(k - 1)}
        last(id) == CHOOSE i \in 1..(k - 1) :
                        /\ Unwrap(results[i]).id = id
                        /\ \A j \in (i + 1)..(k - 1) : Unwrap(results[j]).id # id
    IN k <= Len(results) =>
          /\ response'.kind = "error"
          /\ DOMAIN after = DOMAIN before \cup earlier
          /\ \A id \in earlier :
                after[id] = [data |-> Unwrap(results[last(id)]),
                             expires_at |-> now + StopArrivalTtl]
          /\ \A key \in DOMAIN before \ earlier : after[key] = before[key]

\* C26: incremental cache population. When the k-th block of a batch
\* response fails to parse, the refresh ends in an error; every block before
\* the k-th is in the arrival cache under its siriId with the expiry of
\* this refresh (the later of two earlier blocks of one stop); and every
\* other key of the cache holds what it held before: nothing of the k-th
\* block or of a later one has been stored.
C26_IncrementalPopulation ==
    [][Refreshes => \A results \in {BlockResults} : KthBlockFails(results)]_vars

\* C26 witness: a body whose first block parsed and whose second block named
\* a stop the index does not hold has been processed: the request ended in
\* an error and the first block's stop, not cached before, is in the cache.
C26_Witness ==
    /\ pc = "done" /\ response.kind = "error"
    /\ Len(split_arrival_by_stops(req.arrivals_raw)) = 2
    /\ pass1.record = EmptyMap
    /\ DOMAIN caches.stop_arrival.record = {<<"b">>}

----------------------------------------------------------------------------
(* Claims about a block of the arrival response, checked under SpecArrival *)

\* The header of the parsed block names a stop the stop index holds.
HeaderKnown ==
    \E stop_id \in DOMAIN BlockStopMap :
        SubSeq(block.stop_lines, 1, Len(stop_id) + 6)
            = <<"s", "t", "o", "p", Comma>> \o stop_id \o <<NL>>

\* The line under test fails: its time is no integer, is out of range or
\* names a local time that does not exist, or a column it needs is missing.
LineFails == extract_arrival_data(feed_line, ref_date) = None

\* C27: an arrival-line failure aborts its block. If a line of a block fails,
\* parsing the block returns an error and no record, not even one holding the
\* lines before it, and no line after the failing one is evaluated; a block
\* whose header siriId the stop index lacks fails as well.
C27_LineFailureAbortsBlock ==
    block.stage = "parsed" =>
        /\ LineFails => /\ block.out = None
                        /\ block.evaluated = block.at
        /\ ~HeaderKnown => block.out = None

\* C27 witness: a failing line between a good line and another good line;
\* the block gave no record and the loop stopped at the second line.
C27_Witness ==
    /\ block.stage = "parsed"
    /\ LineFails
    /\ HeaderKnown
    /\ block.at = 2
    /\ block.evaluated = 2
    /\ block.out = None
    /\ block.stop_lines[Len(block.stop_lines) - 1] = "Z"

\* The parsed block holds the line that fails on every date.
HoldsShortLine ==
    \E i \in 1..(Len(block.stop_lines) - Len(ShortLine) - 1) :
        SubSeq(block.stop_lines, i, i + Len(ShortLine) + 1)
            = <<NL>> \o ShortLine \o <<NL>>

\* What a block gives otherwise: with a header the stop index knows and no
\* failing line, the record of the stop.
RecordOtherwise ==
    (block.stage = "parsed" /\ HeaderKnown /\ ~LineFails /\ ~HoldsShortLine) =>
        /\ IsSome(block.out)
        /\ Unwrap(block.out).id \in DOMAIN BlockStopMap
        /\ block.evaluated >= block.at

----------------------------------------------------------------------------
(* Claims about the fragments of an arrival response, checked under Spec *)

\* The places of a body where the block boundary sequence starts.
BoundaryHits(body) ==
    {i \in 1..(Len(body) - Len(BlockBoundary) + 1) :
        SubSeq(body, i, i + Len(BlockBoundary) - 1) = BlockBoundary}

\* The block that starts after the line break of the boundary at h and ends
\* before the next boundary, or with the body.
BlockAfter(body, h) ==
    LET later == {j \in BoundaryHits(body) : j > h}
        stop == IF later = {} THEN Len(body) + 1
                ELSE CHOOSE j \in later : \A l \in later : j <= l
    IN SubSeq(body, h + 1, stop - 1)

HoldsLineBreak(bytes) == \E i \in 1..Len(bytes) : bytes[i] = NL

\* The parse of every block of the body that holds a line break, by the
\* place of its boundary.
WholeBlocks(body, stop_map, today) ==
    [h \in {i \in BoundaryHits(body) : HoldsLineBreak(BlockAfter(body, i))} |->
        extract_stop_arrival_list_data(BlockAfter(body, h), stop_map, today)]

\* What holds of a refresh step, `blocks` being the parse of the blocks of
\* its body that hold a line break.
OnlyWholeBlocksCount(blocks) ==
    LET failed == {h \in DOMAIN blocks : blocks[h] = None}
        stored == {h \in DOMAIN blocks : \A f \in failed : h < f}
        last(id) == CHOOSE h \in stored :
                        /\ Unwrap(blocks[h]).id = id
                        /\ \A j \in stored : j > h => Unwrap(blocks[j]).id # id
        before == caches.stop_arrival.record
        after == caches'.stop_arrival.record
    IN \* the refresh returned Ok, and the second cache pass ran, iff no
       \* block with a line break failed
       /\ req'.passes = 2 <=> failed = {}
       /\ failed # {} => response'.kind = "error"
       /\ \A h \in stored :
             LET id == Unwrap(blocks[h]).id IN
             /\ id \in DOMAIN after
             /\ after[id] = [data |-> Unwrap(blocks[last(id)]),
                             expires_at |-> now + StopArrivalTtl]
       /\ \A key \in DOMAIN after \ DOMAIN before :
             \E h \in stored : Unwrap(blocks[h]).id = key

\* C28: malformed-fragment discard. The text before the first boundary of a
\* batch response is ignored, and a block without a line break is discarded:
\* it raises no error and gets no cache entry, while the other blocks of the
\* response are parsed and stored.
C28_FragmentDiscard ==
    [][Refreshes =>
          \A blocks \in {WholeBlocks(req'.arrivals_raw,
                                     Unwrap(caches'.stop_map.record).data,
                                     TodayAt(now))} :
              OnlyWholeBlocksCount(blocks)]_vars

\* C28 witness: the body "H", "stop,d", "stop,b", "t,1,5,,,,Z" has been
\* stored into an empty arrival cache: no error, and an entry of b alone.
C28_Witness ==
    /\ pc = "done"
    /\ req.passes = 2
    /\ req.arrivals_raw = <<"H", NL, "s", "t", "o", "p", Comma, "d", NL>> \o BlockOfB
    /\ pass1.record = EmptyMap
    /\ DOMAIN caches.stop_arrival.record = {<<"b">>}

\* The same for the body that starts with a block: when its refresh has
\* returned Ok, the block before the first boundary has got no entry.
C28_PrefixIgnored ==
    (/\ pc = "done"
     /\ req.passes = 2
     /\ Len(req.arrivals_raw) > 2
     /\ req.arrivals_raw[1] = "s"
     /\ pass1.record = EmptyMap)
        => DOMAIN caches.stop_arrival.record = {<<"b">>}

----------------------------------------------------------------------------
(* Claims about a failed arrival fetch, checked under Spec *)

\* The request ended after its batched fetch failed: a fetch was made and
\* no body came back.
FetchFailed ==
    /\ pc = "done"
    /\ req.fetches >= 1
    /\ req.arrivals_raw = <<>>

\* C29: no retry on upstream failure. If the batched arrival fetch fails, no
\* second fetch is attempted, the arrival cache stays as it was before the
\* fetch, and the request ends in an error, whatever the first cache pass had
\* made Ready.
C29_NoRetry ==
    /\ [](FetchFailed => /\ req.fetches = 1
                         /\ req.passes = 1
                         /\ response.kind = "error")
    /\ [][(pc = "arrivals_fetch" /\ FetchFailed') =>
             /\ caches'.stop_arrival = caches.stop_arrival
             /\ pc' = "done"]_vars

\* C29 witness: the fetch failed for a request whose first cache pass had
\* made one stop Ready out of the cache; the answer is an error and the cache
\* still holds the entry.
C29_Witness ==
    /\ FetchFailed
    /\ response.kind = "error"
    /\ \E i \in 1..Len(pass1.states) : pass1.states[i].tag = "Ready"
    /\ caches.stop_arrival.record # EmptyMap

----------------------------------------------------------------------------
(* Claims about the raw bytes and the derived index, checked under SpecIndex *)

\* The raw-bytes cache behind the index `feed` in the caches c.
RawOf(feed, c) == IF feed = "stop" THEN c.stops_raw ELSE c.routes_raw

\* The derived index of `feed` is cached and has not expired. No derived
\* route index is cached at all.
DerivedWarm(feed) ==
    \/ feed = "stop" /\ Unexpired(caches.stop_map, now)
    \/ feed = "types" /\ Unexpired(caches.types, now)

\* The index of `feed` parsed from the bytes of a whole feed.
IndexFromBytes(feed, bytes) ==
    IF feed = "stop"
    THEN extract_stop_data_from_buffer(bytes, EmptyMap, None, 0, FALSE).stop_map
    ELSE IF feed = "route"
    THEN extract_route_data_from_buffer(bytes, EmptyMap, LastRouteData_default,
                                        0, FALSE).route_map
    ELSE SortedTypes(extract_type_from_buffer(bytes, {}, 0, FALSE).type_set)

\* A step that calls get_route_map, get_stop_map or the types handler.
IndexCall ==
    /\ lookup.stage # "stream"
    /\ lookup'.stage # "idle"
    /\ now' = now

\* C30: raw bytes and derived index are cached independently. Whenever the
\* raw bytes of a static feed are cached and its derived index is cold or
\* not cached, the index is rebuilt from the cached bytes with no network
\* fetch and the raw-bytes record keeps its value and its expiry; a network
\* fetch happens only when the raw-bytes cache misses.
C30_IndependentCaches ==
    [][IndexCall =>
          LET feed == lookup'.feed
              raw == RawOf(feed, caches)
          IN /\ (Unexpired(raw, now) /\ ~DerivedWarm(feed)) =>
                   /\ lookup'.stage = "done"
                   /\ ~lookup'.fetched
                   /\ lookup'.parsed
                   /\ lookup'.out = Some(IndexFromBytes(feed, Unwrap(raw.record).data))
                   /\ RawOf(feed, caches') = raw
             /\ (lookup'.fetched \/ lookup'.stage = "stream") =>
                   ~Unexpired(raw, now)]_vars

\* C30 witness: the types handler found no cached list and cached route
\* bytes; it derived the sorted list "b", "t" from them without a fetch.
C30_Witness ==
    /\ lookup.feed = "types"
    /\ lookup.stage = "done"
    /\ ~lookup.warm
    /\ lookup.parsed
    /\ ~lookup.fetched
    /\ Unexpired(caches.routes_raw, now)
    /\ lookup.out = Some(<< <<"b">>, <<"t">> >>)

\* The other way round: a derived index that is cached is returned without
\* a look at the raw bytes, whether they have expired or not.
WarmIndexLeavesBytes ==
    [][(IndexCall /\ DerivedWarm(lookup'.feed)) =>
          /\ lookup'.stage = "done"
          /\ ~lookup'.raw_read
          /\ ~lookup'.parsed
          /\ ~lookup'.fetched
          /\ caches' = caches]_vars

\* The stop bytes are never cached while the stop index is cold: both are
\* set by one call and expire together.
StopIndexOutlivesBytes ==
    Unexpired(caches.stops_raw, now) => Unexpired(caches.stop_map, now)

----------------------------------------------------------------------------
(* Claims about a complete batch response, checked under Spec *)

BlockHeaderTag == <<"s", "t", "o", "p", Comma>>

\* The siriId the header line of a block names.
HeaderId(stop_lines) ==
    LET first_line == SplitOn(stop_lines, NL)[1]
    IN SubSeq(first_line, Len(BlockHeaderTag) + 1, Len(first_line))

\* The siriIds of the header blocks of a body.
HeaderIds(body) == {HeaderId(BlockAfter(body, h)) : h \in BoundaryHits(body)}

\* No arrival line of the body is malformed on the date `today`.
NoMalformedLine(body, today) ==
    \A h \in BoundaryHits(body) :
        LET lines == Tail(SplitOn(BlockAfter(body, h), NL)) IN
        \A i \in 1..Len(lines) :
            lines[i] # <<>> => extract_arrival_data(lines[i], today) # None

\* The body answers the batch key: a header block for every siriId of the
\* key, none for another stop, and no malformed arrival line.
CompleteResponse(body, key, today) ==
    /\ HeaderIds(body) = Range(SplitOn(key, Comma))
    /\ NoMalformedLine(body, today)

\* Every requested stop the index knows is Ready, and the request succeeds.
AllReady ==
    /\ response'.kind = "ok"
    /\ \A i \in 1..Len(req'.stop_states) :
          req'.stop_states[i].tag \in {"Ready", "Invalid"}

\* C31: a complete batch response makes every requested known stop Ready.
\* If the response holds a header block for every siriId of the batch key and
\* no arrival line is malformed, then after the refresh the request succeeds
\* with every known stop Ready; a stop whose block is a header without
\* arrival lines, before another block or at the end, is reported with no
\* arrivals.
C31_CompleteResponseAllReady ==
    [][(Refreshes /\ CompleteResponse(req'.arrivals_raw, req.missing_caches,
                                      TodayAt(now)))
          => AllReady]_vars

\* What does hold: the same when every block of the body holds a line break,
\* that is, when no header without arrival lines stands before another block.
AllReadyWithWholeBlocks ==
    [][(/\ Refreshes
        /\ CompleteResponse(req'.arrivals_raw, req.missing_caches, TodayAt(now))
        /\ \A h \in BoundaryHits(req'.arrivals_raw) :
              HoldsLineBreak(BlockAfter(req'.arrivals_raw, h)))
          => AllReady]_vars

\* The failure: the refresh of the body "H", "stop,d", "stop,b", "t,1,5,,,,Z"
\* for the key of b and d returned Ok, and the request ended in an error.
HeaderOnlyBlockLost ==
    /\ pc = "done"
    /\ req.passes = 2
    /\ req.arrivals_raw = <<"H", NL, "s", "t", "o", "p", Comma, "d", NL>> \o BlockOfB
    /\ Range(SplitOn(req.missing_caches, Comma)) = {<<"b">>, <<"d">>}
    /\ response.kind = "error"


\* A header without arrival lines that ends the body with its line break is
\* a block of its own: the stop is stored with an empty arrivals mapping.
TrailingHeaderStored ==
    (/\ pc = "done"
     /\ req.passes = 2
     /\ req.arrivals_raw = <<"H", NL>> \o BlockOfB \o <<"s", "t", "o", "p", Comma, "d", NL>>)
        => /\ <<"d">> \in DOMAIN caches.stop_arrival.record
           /\ caches.stop_arrival.record[<<"d">>].data.arrivals = EmptyMap

----------------------------------------------------------------------------
(* Claims about the two parsers of the route feed, checked under SpecParse *)

\* The route index get_route_map derives from the bytes the type parser has
\* been given so far.
RouteIndexOfSameBytes ==
    extract_route_data_from_buffer(fold.buf, EmptyMap, LastRouteData_default,
                                   0, FALSE).route_map

\* C32: the type parser and the route parser agree. For the same route-feed
\* bytes the distinct-type set equals the set of the type keys of the route
\* index, so every type the types query lists has a route in the routes
\* query; a line with a type but no usable number or direction, or a type
\* that differs by surrounding whitespace only, does not make them differ.
C32_TypesAreRouteIndexKeys ==
    parser = "type" => fold.type_set = DOMAIN RouteIndexOfSameBytes

\* What does hold: every type key of the route index is a member of the
\* distinct-type set with its surrounding whitespace removed.
RouteIndexKeysAreTypes ==
    parser = "type" =>
        \A t \in DOMAIN RouteIndexOfSameBytes :
            \E v \in fold.type_set : Trim(v) = t

\* The failure: the feed of a header and the line "1;;;b" has been read to
\* its end; the type b is listed and the route index is empty.
TypeWithoutRoute ==
    /\ parser = "type"
    /\ content = JoinLines(<< <<"1", ";", ";", ";", "b">>, <<"1", ";", ";", ";", "b">> >>)
    /\ fold.buf = content
    /\ fold.type_set = {<<"b">>}
    /\ RouteIndexOfSameBytes = EmptyMap

----------------------------------------------------------------------------
(* Claims about the two caches of the stop feed, checked under SpecIndex *)

\* C33: the stop index outlives the stop bytes. In every state reached by
\* calls of get_stop_map and clock advances, whenever the raw-bytes cache of
\* the stop feed holds a record, the stop-index cache holds a record that
\* expires no earlier; so the stop bytes are never warm while the stop index
\* is cold, and get_stop_map never rebuilds the index from cached bytes.
C33_StopIndexCoversBytes ==
    /\ IsSome(caches.stops_raw.record) =>
          /\ IsSome(caches.stop_map.record)
          /\ Unwrap(caches.stop_map.record).expires_at
                >= Unwrap(caches.stops_raw.record).expires_at
    /\ ~(Unexpired(caches.stops_raw, now) /\ ~Unexpired(caches.stop_map, now))
    /\ (lookup.feed = "stop" /\ lookup.parsed) => lookup.fetched

\* C33 witness: both records expired, and a later call of get_stop_map has
\* streamed the feed and filled both caches a second time.
C33_Witness ==
    /\ lookup.feed = "stop"
    /\ lookup.stage = "done"
    /\ lookup.fetched
    /\ lookup.parsed
    /\ IsSome(caches.stops_raw.record)
    /\ Unwrap(caches.stops_raw.record).expires_at > StopsRawTtl
    /\ Unwrap(caches.stop_map.record).expires_at
          = Unwrap(caches.stops_raw.record).expires_at

----------------------------------------------------------------------------
(* Several arrivals requests in flight, interleaved at their awaits *)

\* The identifier lists of the requests: the stop of siriId b, the stop of
\* siriId d, both.
TaskRequests == {<< <<"a">> >>, << <<"c">> >>, << <<"a">>, <<"c">> >>}

\* stop,d\nt,2,7,,,,x\n
BlockOfD ==
    <<"s", "t", "o", "p", Comma, "d", NL, "t", Comma, "2", Comma, "7", Comma, Comma, Comma, Comma, "x", NL>>

\* The bodies a batched arrival call may return to a request: a first line,
\* then up to MaxBlocks blocks of the stops b and d.
TaskResponses ==
    {<<"H", NL>> \o Concat(bs) :
        bs \in UNION {[1..k -> {BlockOfB, BlockOfD}] : k \in 0..MaxBlocks}}

\* The seconds that may pass between the writes of a refresh and the reads
\* of the second cache pass, which no await separates: none, or one second
\* less than the arrival TTL.
SectionDrifts == {0, StopArrivalTtl - 1}

\* A second cache pass that runs only after an await during which more than
\* the arrival TTL has passed.
SecondCachePassAfterTtl(states, arrivals_cache, t) ==
    CachePass(states, arrivals_cache, t + StopArrivalTtl + 1)

\* lib.rs 383-391: the second cache pass, run when update_stops_arrival_cache
\* has returned Ok, with no await in between.
SecondCachePass(states, arrivals_cache, t) == CachePass(states, arrivals_cache, t)

\* The siriIds of the blocks a refresh stored: those before the first Err.
RECURSIVE StoredIds(_)
StoredIds(results) ==
    IF results = <<>> \/ results[1] = None THEN {}
    ELSE {Unwrap(results[1]).id} \cup StoredIds(Tail(results))

\* Request i ends with the response r; the body it held is dropped.
TaskDone(i, states, passes, stored_ids, r) ==
    tasks' = [tasks EXCEPT ![i] = [@ EXCEPT !.pc = "done",
                                            !.stop_states = states,
                                            !.passes = passes,
                                            !.stored = stored_ids,
                                            !.arrivals_raw = <<>>,
                                            !.response = r]]

\* lib.rs 350-382 for request i once the first cache pass `first` has run:
\* the batch key, then the answer or the batched fetch.
TaskAfterFirstPass(i, stops_request, c, first) ==
    /\ caches' = [c EXCEPT !.stop_arrival = first.cache]
    /\ \E missing_caches \in MissingCaches(first.states) :
          IF missing_caches # <<>>
          THEN tasks' = [tasks EXCEPT ![i] =
                            [@ EXCEPT !.pc = "arrivals_fetch",
                                      !.stops_request = stops_request,
                                      !.stop_states = first.states,
                                      !.passes = 1,
                                      !.missing_caches = missing_caches,
                                      !.fetches = @ + 1]]
          ELSE tasks' = [tasks EXCEPT ![i] =
                            [@ EXCEPT !.pc = "done",
                                      !.stops_request = stops_request,
                                      !.stop_states = first.states,
                                      !.passes = 1,
                                      !.response = Finalize(first.states)]]

TaskResolve(i, stops_request, stop_map, c) ==
    TaskAfterFirstPass(i, stops_request, c,
                       CachePass(ValidateAll(stops_request, stop_map),
                                 c.stop_arrival, now))

\* lib.rs 348 for request i, the first get_stop_map having got as far as
\* `cached`.
TaskAccepted(i, stops_request, cached) ==
    IF IsSome(cached.out)
    THEN TaskResolve(i, stops_request, Unwrap(cached.out), cached.caches)
    ELSE /\ caches' = cached.caches
         /\ tasks' = [tasks EXCEPT ![i] = [@ EXCEPT !.pc = "stops_stream",
                                                   !.stops_request = stops_request]]

\* Request i arrives.
TaskStart(i, stops_request) ==
    /\ tasks[i].pc = "idle"
    /\ TaskAccepted(i, stops_request, get_stop_map_cached(caches, now))
    /\ UNCHANGED <<now, pc, req, response, served, pass1, elapsed>>
    /\ UNCHANGED <<benchVars, parseVars, arrivalVars, indexVars>>

TaskStreamed(i, got) ==
    TaskResolve(i, tasks[i].stops_request, Unwrap(got.out), got.caches)

\* The stop stream of the first get_stop_map of request i has been folded.
TaskStopsStream(i) ==
    /\ tasks[i].pc = "stops_stream"
    /\ TaskStreamed(i, get_stop_map_streamed(caches, now, EngineStopFeed))
    /\ UNCHANGED <<now, pc, req, response, served, pass1, elapsed>>
    /\ UNCHANGED <<benchVars, parseVars, arrivalVars, indexVars>>

\* lib.rs 382-403 for request i once the loop of update_stops_arrival_cache
\* has ended with `stored` over the block results: Err ends the request,
\* else the second cache pass `second` decides the answer.
TaskAfterStore(i, body, c, results, stored, second) ==
    IF ~stored.ok
    THEN /\ caches' = [c EXCEPT !.stop_arrival = stored.cache]
         /\ TaskDone(i, tasks[i].stop_states, 1, StoredIds(results),
                     [kind |-> "error", stops |-> <<>>])
    ELSE /\ caches' = [c EXCEPT !.stop_arrival = second.cache]
         /\ TaskDone(i, second.states, 2, StoredIds(results),
                     Finalize(second.states))

TaskSecondPass(i, body, c, results, stored, later) ==
    TaskAfterStore(i, body, c, results, stored,
                   SecondCachePass(tasks[i].stop_states, stored.cache, later))

TaskStoreResults(i, body, c, results, later) ==
    TaskSecondPass(i, body, c, results,
                   StoreBlocks(results, c.stop_arrival, now), later)

\* services.rs 110-120 and lib.rs 382-403 for request i: the blocks are
\* parsed and stored at the clock value now, the second pass reads the clock
\* at `later`.
TaskStore(i, body, stop_map, c, later) ==
    /\ TaskStoreResults(i, body, c,
                        FlatMapBlocks(split_arrival_by_stops(body), stop_map,
                                      TodayAt(now)),
                        later)
    /\ now' = later

\* services.rs 109 for request i, the second get_stop_map having got as far
\* as `cached`.
TaskWithStopMap(i, body, cached, later) ==
    IF IsSome(cached.out)
    THEN TaskStore(i, body, Unwrap(cached.out), cached.caches, later)
    ELSE /\ caches' = cached.caches
         /\ tasks' = [tasks EXCEPT ![i] = [@ EXCEPT !.pc = "stops_stream_again",
                                                   !.arrivals_raw = body]]
         /\ UNCHANGED now

\* The batched fetch of request i returns a body.
TaskArrivalsReturn(i, body, d) ==
    /\ tasks[i].pc = "arrivals_fetch"
    /\ TaskWithStopMap(i, body, get_stop_map_cached(caches, now), now + d)
    /\ UNCHANGED <<pc, req, response, served, pass1, elapsed>>
    /\ UNCHANGED <<benchVars, parseVars, arrivalVars, indexVars>>

TaskStreamedAgain(i, got, later) ==
    TaskStore(i, tasks[i].arrivals_raw, Unwrap(got.out), got.caches, later)

\* The stop stream of the second get_stop_map of request i has been folded.
TaskStopsStreamAgain(i, d) ==
    /\ tasks[i].pc = "stops_stream_again"
    /\ TaskStreamedAgain(i, get_stop_map_streamed(caches, now, EngineStopFeed),
                         now + d)
    /\ UNCHANGED <<pc, req, response, served, pass1, elapsed>>
    /\ UNCHANGED <<benchVars, parseVars, arrivalVars, indexVars>>

\* An upstream call of request i fails: `.await?` ends the request.
TaskFails(i) ==
    /\ tasks[i].pc \in {"stops_stream", "arrivals_fetch", "stops_stream_again"}
    /\ tasks' = [tasks EXCEPT ![i] = [@ EXCEPT !.pc = "done",
                                              !.response = [kind |-> "error",
                                                            stops |-> <<>>]]]
    /\ UNCHANGED <<now, caches, pc, req, response, served, pass1, elapsed>>
    /\ UNCHANGED <<benchVars, parseVars, arrivalVars, indexVars>>

\* The clock advances while the requests await.
TaskElapse(d) ==
    /\ elapsed < MaxElapses
    /\ elapsed' = elapsed + 1
    /\ now' = now + d
    /\ UNCHANGED <<caches, pc, req, response, served, pass1, tasks>>
    /\ UNCHANGED <<benchVars, parseVars, arrivalVars, indexVars>>

TaskNext ==
    \/ \E i \in TaskIds, stops_request \in TaskRequests : TaskStart(i, stops_request)
    \/ \E i \in TaskIds : TaskStopsStream(i)
    \/ \E i \in TaskIds, body \in TaskResponses, d \in SectionDrifts :
          TaskArrivalsReturn(i, body, d)
    \/ \E i \in TaskIds, d \in SectionDrifts : TaskStopsStreamAgain(i, d)
    \/ \E i \in TaskIds : TaskFails(i)
    \/ \E d \in ClockSteps : TaskElapse(d)

InitTasks == TasksIdle /\ EngineIdle /\ CacheIdle /\ ParseIdle /\ ArrivalIdle /\ IndexIdle

SpecTasks == InitTasks /\ [][TaskNext]_vars

----------------------------------------------------------------------------
(* Claims about interleaved requests, checked under SpecTasks *)

\* The stops of request i that are still Valid: known, and without arrivals.
StillValid(i) ==
    {Unwrap(tasks[i].stop_states[k].data).siri_id :
        k \in {j \in 1..Len(tasks[i].stop_states) :
                  tasks[i].stop_states[j].tag = "Valid"}}

\* C34: the refresh and the second cache pass of a request are one
\* synchronous section. With several requests interleaved at their awaits,
\* no await lies between the writes of a request's refresh and its second
\* cache pass: if less than the arrival TTL passes inside that section,
\* every stop the request's own refresh stored is Ready in its second pass
\* whatever the other requests do, and every request makes at most one
\* batched fetch.
C34_RefreshThenPassIsAtomic ==
    \A i \in TaskIds :
        /\ tasks[i].fetches <= 1
        /\ tasks[i].stored # {} => tasks[i].pc = "done"
        /\ tasks[i].passes = 2 => StillValid(i) \cap tasks[i].stored = {}

\* C34 witness: two requests for the same cold stop were in flight together
\* and each made its own batched fetch; the first has stored the stop and
\* answered with it Ready while the second still awaits its fetch.
C34_Witness ==
    /\ elapsed = 0
    /\ tasks[1].pc = "done"
    /\ tasks[1].passes = 2
    /\ tasks[1].fetches = 1
    /\ tasks[1].missing_caches = <<"b">>
    /\ tasks[1].stored = {<<"b">>}
    /\ tasks[1].response.kind = "ok"
    /\ tasks[1].stop_states[1].tag = "Ready"
    /\ tasks[2].pc = "arrivals_fetch"
    /\ tasks[2].fetches = 1
    /\ tasks[2].missing_caches = <<"b">>

====
